---------------------------- MODULE Spec2Model ----------------------------
(***************************************************************************)
(* Model of the backend adapter layer of phrase-pilot-mobile               *)
(* (src/src/services/LLMService.ts): the four LLMService implementations,  *)
(* their rephrase and listModels operations, the OpenAI retry on HTTP 429  *)
(* and the factory.  One adapter call is followed from its fetch to its    *)
(* return; the backend (status, headers, body) and the clock are the       *)
(* environment.  Beside it: StorageService (SpecStorage), the onboarding   *)
(* wizard (SpecWizard), a caller that keeps the configuration object it    *)
(* built an adapter with (SpecCaller) and calls in flight side by side     *)
(* (SpecConcurrent).                                                       *)
(***************************************************************************)
EXTENDS Integers, Sequences, FiniteSets, TLC

(***************************************************************************)
(* Bounds of the model.                                                    *)
(***************************************************************************)
\* longest generated content, in tokens
MaxLen == 4
\* number of 429 answers the bounded backend of Spec gives to one call
Max429 == 2
\* longest model list a models endpoint answers with
MaxModels == 2
\* granularity, in ms, in which the clock advances while a timer is pending
TickMs == 1000

(***************************************************************************)
(* The state: one adapter and the call in progress on it.                  *)
(***************************************************************************)
VARIABLES
    config,     \* the LLMConfig the adapter was built from
    service,    \* the variant createService chose
    op,         \* "none", "rephrase" or "listModels"
    text,       \* the arguments of the rephrase call
    options,
    pc,         \* idle, fetching, sleeping, done (returned), failed (raised)
    request,    \* the HTTP request issued last
    fetched,    \* how the last fetch settled
    timer,      \* ms left on the pending retry timer
    result,     \* the LLMResponse rephrase returned
    models,     \* the list listModels returned
    sent,       \* history: HTTP requests issued by the call
    n429,       \* history: 429 responses received by the call
    waited,     \* history: ms elapsed since the last retry timer was set
    backoff,    \* history: the Retry-After header of the last 429 response
    firstRequest, \* history: the HTTP request the call issued first
    localStorage, \* the browser's store: the item under each key, or null
    storageOp,  \* the StorageService operation performed last
    loaded,     \* the LLMConfig getConfig returned last
    configured, \* the value isConfigured returned last
    lastSaved,  \* history: the configuration saved last and not cleared since
    wizard,     \* OnboardingScreen: its config, step and isLoading
    wizardPc,   \* editing, testing (listModels is out) or completed
    backend,    \* the condition of the backend during the connection test
    wentBack,   \* history: the Back button has been used
    callerAlias, \* the caller's variable refers to the object it constructed
                \* the adapter with (this.config is that object)
    callerCopy, \* the caller's object once its variable refers to a new one
    constructed, \* history: the values of config when the adapter was built
    calls,      \* the calls in flight side by side, each with its own state
    app,        \* PhrasePilot: isLoading, isConfigured, config and isEnabled
    finish,     \* history: what the last Finish run of the wizard has called
    bubble,     \* AndroidBubble: the state of the mounted instance and what
                \* it has pending (requests, clipboard reads and writes, timers)
    keyboard,   \* IOSKeyboard: the state of the mounted instance and its requests
    orphans     \* rephrase requests in flight whose instance was unmounted

\* the state of the adapter call, of the store
adapterVars == <<config, service, op, text, options, pc, request, fetched, timer,
                 result, models, sent, n429, waited, backoff, firstRequest>>
storageVars == <<localStorage, storageOp, loaded, configured, lastSaved>>

wizardVars == <<wizard, wizardPc, backend, wentBack>>
callerVars == <<callerAlias, callerCopy, constructed>>
uiVars == <<app, finish, bubble, keyboard, orphans>>
nonAdapterVars == <<storageVars, wizardVars, callerVars, calls, uiVars>>

vars == <<adapterVars, storageVars, wizardVars, callerVars, calls, uiVars>>

(***************************************************************************)
(* JavaScript values: strings are token sequences; undefined and null are  *)
(* kept apart from the empty string.                                       *)
(***************************************************************************)
Undefined == [t |-> "undefined", s |-> <<>>]
Null == [t |-> "null", s |-> <<>>]
Str(s) == [t |-> "string", s |-> s]

\* booleans, beside the strings
Bool(b) == [t |-> "boolean", s |-> IF b THEN <<"true">> ELSE <<"false">>]

\* JavaScript truthiness of a value (used by ||, by &&, by !!x and by if (x)).
Truthy(v) == (v.t = "string" /\ v.s # <<>>) \/ v = Bool(TRUE)

\* a || b
OrElse(a, b) == IF Truthy(a) THEN a ELSE b

(***************************************************************************)
(* Completions of a piece of code: it returns a value, throws an error     *)
(* with a message, or (OpenAI only) suspends on a timer before retrying.   *)
(***************************************************************************)
Return(v) == [kind |-> "return", value |-> v, message |-> "", delay |-> 0]
Throw(m) == [kind |-> "throw", value |-> Undefined, message |-> m, delay |-> 0]
Sleep(d) == [kind |-> "sleep", value |-> Undefined, message |-> "", delay |-> d]

(***************************************************************************)
(* The configuration and the provider identifiers.                         *)
(***************************************************************************)
OpenAI == "OpenAI"
HuggingFace == "Hugging Face"
Azure == "Azure"
Local == "Local"
LLMProvider == {OpenAI, HuggingFace, Azure, Local}

\* provider values a configuration can carry: the enum's, a string that is
\* not in the enum, and undefined (the wizard's item LLMProvider.Gemini, a
\* member the enum does not have)
ProviderValues == {Str(<<p>>) : p \in LLMProvider \cup {"Gemini"}} \cup {Undefined}

Configs ==
    [provider : ProviderValues, apiUrl : {"https://host/v1"},
     apiKey : {"sk-key"}, modelName : {"model-a"}]

\* createService with the Local adapter as the default of the switch
createServiceDefaultLocal(cfg) ==
    CASE cfg.provider = Str(<<OpenAI>>) -> OpenAI
      [] cfg.provider = Str(<<HuggingFace>>) -> HuggingFace
      [] cfg.provider = Str(<<Azure>>) -> Azure
      [] OTHER -> Local

\* LLMServiceFactory.createService: the variant that serves a configuration
createService(cfg) ==
    CASE cfg.provider = Str(<<OpenAI>>) -> OpenAI
      [] cfg.provider = Str(<<HuggingFace>>) -> HuggingFace
      [] cfg.provider = Str(<<Azure>>) -> Azure
      [] cfg.provider = Str(<<Local>>) -> Local
      [] OTHER -> OpenAI

(***************************************************************************)
(* Generated content.  A content string is a sequence of tokens:           *)
(*   "{" and "}"  the braces,                                              *)
(*   "p"          the member  "rephrased":"v"  (between braces),            *)
(*   "x"          a word of prose.                                         *)
(* The only JSON texts over these tokens are {} and {"rephrased":"v"}.     *)
(***************************************************************************)
Tokens == {"{", "}", "p", "x"}

SeqsUpTo(S, n) == UNION {[1..k -> S] : k \in 0..n}

Contents == SeqsUpTo(Tokens, MaxLen)

\* the value of the member "p"
RephrasedValue == Str(<<"v">>)

\* JsonParse of a parser that accepts no text: every content is a SyntaxError
JsonParseRejecting(v) == Throw("SyntaxError: Unexpected token")

\* JSON.parse(v): the parsed value, or a SyntaxError.  A non-string argument
\* is converted to text first: null reads as the JSON text null, undefined
\* as the text undefined, which is no JSON.
JsonParse(v) ==
    CASE v.t = "null" -> Return([kind |-> "null", rephrased |-> Undefined])
      [] v.t = "undefined" -> Throw("SyntaxError: \"undefined\" is not valid JSON")
      [] v.s = <<"{", "}">> -> Return([kind |-> "object", rephrased |-> Undefined])
      [] v.s = <<"{", "p", "}">> -> Return([kind |-> "object", rephrased |-> RephrasedValue])
      [] OTHER -> Throw("SyntaxError: Unexpected token")

\* parsedContent.rephrased: a property read, which throws on null
GetRephrased(parsed) ==
    IF parsed.kind = "null"
    THEN Throw("TypeError: Cannot read properties of null")
    ELSE Return(parsed.rephrased)

\* content.match(/\{.*\}/s): the span from the first "{" to the last "}"
\* after it (. matches everything under the s flag and * is greedy), or no
\* match.  On a value that is no string, .match is a TypeError.
Positions(s, tok) == {i \in 1..Len(s) : s[i] = tok}
MinOf(S) == CHOOSE i \in S : \A j \in S : i <= j
MaxOf(S) == CHOOSE i \in S : \A j \in S : j <= i
\* JsonMatch with a lazy quantifier, /\{.*?\}/s: the span ends at the first
\* "}" after the first "{"
JsonMatchLazy(v) ==
    IF v.t # "string"
    THEN Throw("TypeError: content.match is not a function")
    ELSE LET opens == Positions(v.s, "{")
             closes == Positions(v.s, "}")
         IN IF opens # {} /\ closes # {} /\ MinOf(opens) < MaxOf(closes)
            THEN Return(Str(SubSeq(v.s, MinOf(opens),
                                   MinOf({j \in closes : j > MinOf(opens)}))))
            ELSE Return(Null)

JsonMatch(v) ==
    IF v.t # "string"
    THEN Throw("TypeError: content.match is not a function")
    ELSE LET opens == Positions(v.s, "{")
             closes == Positions(v.s, "}")
         IN IF opens # {} /\ closes # {} /\ MinOf(opens) < MaxOf(closes)
            THEN Return(Str(SubSeq(v.s, MinOf(opens), MaxOf(closes))))
            ELSE Return(Null)


(***************************************************************************)
(* Numbers.  parseInt yields an integer or NaN.                            *)
(***************************************************************************)
NaN == [nan |-> TRUE, n |-> 0]
Num(n) == [nan |-> FALSE, n |-> n]

Digits == {"0", "1", "2", "3", "4", "5", "6", "7", "8", "9"}
DigitValue(d) ==
    CASE d = "0" -> 0 [] d = "1" -> 1 [] d = "2" -> 2 [] d = "3" -> 3
      [] d = "4" -> 4 [] d = "5" -> 5 [] d = "6" -> 6 [] d = "7" -> 7
      [] d = "8" -> 8 [] d = "9" -> 9

\* the number of leading decimal digits of s
RECURSIVE LeadingDigits(_)
LeadingDigits(s) ==
    IF s = <<>> \/ Head(s) \notin Digits THEN 0 ELSE 1 + LeadingDigits(Tail(s))

RECURSIVE DecimalValue(_)
DecimalValue(s) ==
    IF s = <<>> THEN 0 ELSE 10 * DecimalValue(SubSeq(s, 1, Len(s) - 1)) + DigitValue(s[Len(s)])

\* parseInt(s, 10) of a string of characters: the value of its leading
\* digits, NaN when it has none
ParseInt(s) ==
    IF LeadingDigits(s) = 0 THEN NaN ELSE Num(DecimalValue(SubSeq(s, 1, LeadingDigits(s))))

\* the largest delay setTimeout keeps: it stores the delay as a 32-bit
\* signed integer
TimeoutMax == 2147483647
MsPerSecond == 1000

\* setTimeout's delay for  seconds * 1000  ms: NaN and negative delays count
\* as 0; a product above TimeoutMax wraps around in 32 bits.  The wrapped
\* value is computed from the seconds, 2^32 being 4294967 * 1000 + 296, for
\* the products below 2^32 (the headers of the model stay below).
TimerDelay(seconds) ==
    IF seconds.nan THEN 0
    ELSE IF seconds.n <= TimeoutMax \div MsPerSecond THEN seconds.n * MsPerSecond
    ELSE LET wrapped == MsPerSecond * (seconds.n - 4294967) - 296
         IN IF wrapped < 0 THEN 0 ELSE wrapped

(***************************************************************************)
(* What the backend can answer.                                            *)
(***************************************************************************)
Statuses == {200, 401, 429, 500}

\* response.ok
ResponseOk(status) == status >= 200 /\ status <= 299

\* response.headers.get('Retry-After'): null when the header is absent,
\* else its text, one character per token
RetryAfterValues ==
    {Null, Str(<<>>), Str(<<"0">>), Str(<<"2">>),
     Str(<<"2", "1", "4", "7", "4", "8", "4">>), Str(<<"W", "e", "d">>)}

ContentValues == {Str(c) : c \in Contents} \cup {Null, Undefined}

\* A response body as the variant reads it:
\*   notjson     response.json() rejects,
\*   noenvelope  JSON without the envelope the variant indexes
\*               (OpenAI, Azure: no choices[0].message; HuggingFace: no
\*               element 0; Local: null),
\*   envelope    the envelope, with the fields it carries.
Body(shape, content, response, output, generated_text) ==
    [shape |-> shape, content |-> content, response |-> response,
     output |-> output, generated_text |-> generated_text]
NotJson == Body("notjson", Undefined, Undefined, Undefined, Undefined)
NoEnvelope == Body("noenvelope", Undefined, Undefined, Undefined, Undefined)

\* longest value of the fields a Local body carries beside each other
MaxFieldLen == 1
LocalFieldValues == {Str(c) : c \in SeqsUpTo(Tokens, MaxFieldLen)} \cup {Undefined}

OpenAIBodies ==
    {NotJson, NoEnvelope}
    \cup {Body("envelope", c, Undefined, Undefined, Undefined) : c \in ContentValues}
HuggingFaceBodies ==
    {NotJson, NoEnvelope}
    \cup {Body("envelope", Undefined, Undefined, Undefined, c) : c \in ContentValues}
LocalBodies ==
    {NotJson, NoEnvelope}
    \cup {Body("envelope", Undefined, r, o, g) : r, o, g \in LocalFieldValues}
    \cup {Body("envelope", Undefined, c, Undefined, Undefined) : c \in ContentValues}
    \cup {Body("envelope", Undefined, Undefined, c, Undefined) : c \in ContentValues}
    \cup {Body("envelope", Undefined, Undefined, Undefined, c) : c \in ContentValues}

\* the outcome of one fetch: it rejects (network failure) or resolves with
\* a response
Rejected(message) ==
    [rejected |-> TRUE, message |-> message, status |-> 0,
     retryAfter |-> Null, body |-> NotJson]
Resolved(status, retryAfter, body) ==
    [rejected |-> FALSE, message |-> "", status |-> status,
     retryAfter |-> retryAfter, body |-> body]
\* before the first fetch of a call has settled
NoFetch == Rejected("")

NetworkErrors == {"Failed to fetch"}

(***************************************************************************)
(* LLMResponse and the extraction of the rephrased text.                   *)
(***************************************************************************)
LLMResponse(rephrased, error) == [rephrased |-> rephrased, error |-> error]
NoResult == LLMResponse(Undefined, Undefined)

ApiError(status) == "API error: " \o ToString(status)

\* OpenAIContent with optional chaining, data.choices?.[0]?.message?.content:
\* a missing envelope reads as undefined content
OpenAIContentOptional(body) ==
    CASE body.shape = "notjson" -> Throw("SyntaxError: Unexpected token in JSON")
      [] body.shape = "noenvelope" -> Return(Undefined)
      [] OTHER -> Return(body.content)

\* await response.json() and the path to the generated content
OpenAIContent(body) ==
    CASE body.shape = "notjson" -> Throw("SyntaxError: Unexpected token in JSON")
      [] body.shape = "noenvelope" -> Throw("TypeError: Cannot read properties of undefined")
      [] OTHER -> Return(body.content)

HuggingFaceContent(body) ==
    CASE body.shape = "notjson" -> Throw("SyntaxError: Unexpected token in JSON")
      [] body.shape = "noenvelope" -> Throw("TypeError: Cannot read properties of undefined")
      [] OTHER -> Return(body.generated_text)

\* LocalContent with ?? in the place of ||: the first field that is there,
\* empty or not
LocalContentNullish(body) ==
    CASE body.shape = "notjson" -> Throw("SyntaxError: Unexpected token in JSON")
      [] body.shape = "noenvelope" -> Throw("TypeError: Cannot read properties of null")
      [] OTHER ->
           Return(IF body.response.t = "string" THEN body.response
                  ELSE IF body.output.t = "string" THEN body.output
                  ELSE IF body.generated_text.t = "string" THEN body.generated_text
                  ELSE Str(<<>>))

LocalContent(body) ==
    CASE body.shape = "notjson" -> Throw("SyntaxError: Unexpected token in JSON")
      [] body.shape = "noenvelope" -> Throw("TypeError: Cannot read properties of null")
      [] OTHER -> Return(OrElse(OrElse(OrElse(body.response, body.output),
                                       body.generated_text), Str(<<>>)))

\* try { JSON.parse(content).rephrased } catch { content }
ParseContent(content) ==
    LET parsed == JsonParse(content)
    IN IF parsed.kind = "throw" THEN LLMResponse(content, Undefined)
       ELSE LET field == GetRephrased(parsed.value)
            IN IF field.kind = "throw" THEN LLMResponse(content, Undefined)
               ELSE LLMResponse(field.value, Undefined)

\* try { match the {...} span and parse it, else content } catch { content }
ExtractJson(content) ==
    LET jsonMatch == JsonMatch(content)
    IN IF jsonMatch.kind = "throw" THEN LLMResponse(content, Undefined)
       ELSE IF jsonMatch.value.t = "string"
            THEN LET parsed == JsonParse(jsonMatch.value)
                 IN IF parsed.kind = "throw" THEN LLMResponse(content, Undefined)
                    ELSE LET field == GetRephrased(parsed.value)
                         IN IF field.kind = "throw" THEN LLMResponse(content, Undefined)
                            ELSE LLMResponse(field.value, Undefined)
            ELSE LLMResponse(content, Undefined)

\* CatchRephrase with the catch block missing: the error escapes the call
CatchRephraseRethrows(completion) == completion

\* catch (error) { return { rephrased: '', error: error.message } }
CatchRephrase(completion) ==
    IF completion.kind = "throw"
    THEN Return(LLMResponse(Str(<<>>), Str(<<completion.message>>)))
    ELSE completion

\* IsRateLimited taking every status from 429 up as a rate limit
IsRateLimitedOrAbove(status) == status >= 429

\* response.status === 429
IsRateLimited(status) == status = 429

\* const retryAfter = response.headers.get('Retry-After') || '5';
\* const delay = parseInt(retryAfter, 10) * 1000;
RetryDelay(header) == TimerDelay(ParseInt(OrElse(header, Str(<<"5">>)).s))

(***************************************************************************)
(* rephrase, from the settled fetch to its completion, per variant.        *)
(***************************************************************************)
\* OpenAIRephrase with a maximum retry count: once more than Max429 requests
\* are out, a further 429 is reported as an error
OpenAIRephraseGivingUp(f) ==
    CatchRephrase(
        IF f.rejected THEN Throw(f.message)
        ELSE IF ~ResponseOk(f.status)
             THEN IF IsRateLimited(f.status) /\ sent <= Max429
                  THEN Sleep(RetryDelay(f.retryAfter))
                  ELSE Throw(ApiError(f.status))
        ELSE LET content == OpenAIContent(f.body)
             IN IF content.kind = "throw" THEN content
                ELSE Return(ParseContent(content.value)))

OpenAIRephrase(f) ==
    CatchRephrase(
        IF f.rejected THEN Throw(f.message)
        ELSE IF ~ResponseOk(f.status)
             THEN IF IsRateLimited(f.status) THEN Sleep(RetryDelay(f.retryAfter))
                  ELSE Throw(ApiError(f.status))
        ELSE LET content == OpenAIContent(f.body)
             IN IF content.kind = "throw" THEN content
                ELSE Return(ParseContent(content.value)))

\* HuggingFaceRephrase with the 429 backoff of the OpenAI variant copied in
HuggingFaceRephraseRetrying(f) ==
    CatchRephrase(
        IF f.rejected THEN Throw(f.message)
        ELSE IF ~ResponseOk(f.status)
             THEN IF IsRateLimited(f.status) THEN Sleep(RetryDelay(f.retryAfter))
                  ELSE Throw(ApiError(f.status))
        ELSE LET content == HuggingFaceContent(f.body)
             IN IF content.kind = "throw" THEN content
                ELSE Return(ExtractJson(content.value)))

HuggingFaceRephrase(f) ==
    CatchRephrase(
        IF f.rejected THEN Throw(f.message)
        ELSE IF ~ResponseOk(f.status) THEN Throw(ApiError(f.status))
        ELSE LET content == HuggingFaceContent(f.body)
             IN IF content.kind = "throw" THEN content
                ELSE Return(ExtractJson(content.value)))

AzureRephrase(f) ==
    CatchRephrase(
        IF f.rejected THEN Throw(f.message)
        ELSE IF ~ResponseOk(f.status) THEN Throw(ApiError(f.status))
        ELSE LET content == OpenAIContent(f.body)
             IN IF content.kind = "throw" THEN content
                ELSE Return(ParseContent(content.value)))

LocalRephrase(f) ==
    CatchRephrase(
        IF f.rejected THEN Throw(f.message)
        ELSE IF ~ResponseOk(f.status) THEN Throw(ApiError(f.status))
        ELSE LET content == LocalContent(f.body)
             IN IF content.kind = "throw" THEN content
                ELSE Return(ExtractJson(content.value)))

Rephrase(variant, f) ==
    CASE variant = OpenAI -> OpenAIRephrase(f)
      [] variant = HuggingFace -> HuggingFaceRephrase(f)
      [] variant = Azure -> AzureRephrase(f)
      [] variant = Local -> LocalRephrase(f)

(***************************************************************************)
(* listModels.                                                             *)
(***************************************************************************)
ModelEntries == {[id |-> Str(<<"m1">>)], [id |-> Undefined]}
ModelItems == {Str(<<"m1">>), Str(<<"m2">>)}

\* The body of a models endpoint: no JSON, a JSON object that carries a
\* list of model entries under "data", under "value" or not at all, or a
\* JSON array of items.
ModelsBody(shape, field, entries, items) ==
    [shape |-> shape, field |-> field, entries |-> entries, items |-> items]
ModelsNotJson == ModelsBody("notjson", "none", <<>>, <<>>)
ModelsBodies ==
    {ModelsNotJson, ModelsBody("object", "none", <<>>, <<>>)}
    \cup {ModelsBody("object", f, e, <<>>) :
            f \in {"data", "value"}, e \in SeqsUpTo(ModelEntries, MaxModels)}
    \cup {ModelsBody("array", "none", <<>>, i) : i \in SeqsUpTo(ModelItems, MaxModels)}

\* data.<field>.map((model) => model.id) on the parsed body
MapIds(body, field) ==
    CASE body.shape = "notjson" -> Throw("SyntaxError: Unexpected token in JSON")
      [] body.shape = "object" /\ body.field = field ->
           Return([i \in 1..Len(body.entries) |-> body.entries[i].id])
      [] OTHER -> Throw("TypeError: Cannot read properties of undefined")

\* catch (error) { return []; }
CatchListModels(completion) ==
    IF completion.kind = "throw" THEN Return(<<>>) ELSE completion

\* LocalCatchListModels answering as the other variants do: return []
LocalCatchListModelsEmpty(cfg, completion) ==
    IF completion.kind = "throw" THEN Return(<<>>) ELSE completion

\* catch (error) { return [this.config.modelName]; }
LocalCatchListModels(cfg, completion) ==
    IF completion.kind = "throw" THEN Return(<<Str(<<cfg.modelName>>)>>) ELSE completion

OpenAIListModels(f) ==
    CatchListModels(
        IF f.rejected THEN Throw(f.message)
        ELSE IF ~ResponseOk(f.status) THEN Throw(ApiError(f.status))
        ELSE MapIds(f.body, "data"))

HuggingFaceModels ==
    << Str(<<"meta-llama/Meta-Llama-3-8B">>), Str(<<"meta-llama/Meta-Llama-3-70B">>),
       Str(<<"mistralai/Mistral-7B-Instruct-v0.2">>),
       Str(<<"mistralai/Mixtral-8x7B-Instruct-v0.1">>),
       Str(<<"google/gemma-7b">>), Str(<<"google/gemma-2b">>),
       Str(<<"facebook/opt-6.7b">>) >>

AzureListModels(f) ==
    CatchListModels(
        IF f.rejected THEN Throw(f.message)
        ELSE IF ~ResponseOk(f.status) THEN Throw(ApiError(f.status))
        ELSE MapIds(f.body, "value"))

LocalListModels(cfg, f) ==
    LocalCatchListModels(cfg,
        IF f.rejected THEN Throw(f.message)
        ELSE IF ~ResponseOk(f.status) THEN Throw(ApiError(f.status))
        ELSE IF f.body.shape = "notjson" THEN Throw("SyntaxError: Unexpected token in JSON")
        ELSE IF f.body.shape = "array" THEN Return(f.body.items)
        ELSE Return(<<Str(<<cfg.modelName>>)>>))

\* listModels of the variants that fetch
ListModels(variant, cfg, f) ==
    CASE variant = OpenAI -> OpenAIListModels(f)
      [] variant = Azure -> AzureListModels(f)
      [] variant = Local -> LocalListModels(cfg, f)

(***************************************************************************)
(* StorageService: one LLMConfig kept as a JSON text in localStorage.      *)
(***************************************************************************)
LLMConfig(provider, apiUrl, apiKey, modelName, flag) ==
    [provider |-> provider, apiUrl |-> apiUrl, apiKey |-> apiKey,
     modelName |-> modelName, isConfigured |-> flag]

\* no configuration (none loaded yet, none saved)
NoConfig == LLMConfig(Undefined, Undefined, Undefined, Undefined, Undefined)

defaultConfig ==
    LLMConfig(Str(<<OpenAI>>), Str(<<"https://api.openai.com/v1">>), Str(<<>>),
              Str(<<"gpt-4o-mini">>), Bool(FALSE))

\* the keys of an LLMConfig, in the order of its members
ConfigFields == <<"provider", "apiUrl", "apiKey", "modelName", "isConfigured">>

CONFIG_KEY == "phrase_pilot_config"
\* the keys of the store: the service's, and one of another owner
StorageKeys == {CONFIG_KEY, "theme"}

\* the JSON text of a string or boolean value
JsonValueText(v) ==
    IF v.t = "string"
    THEN "\"" \o (IF v.s = <<>> THEN "" ELSE v.s[1]) \o "\""
    ELSE v.s[1]

\* the strings the fields of a configuration take in the model
FieldStrings ==
    {OpenAI, HuggingFace, Azure, Local, "Gemini", "https://api.openai.com/v1",
     "https://api-inference.huggingface.co/models",
     "https://your-resource-name.openai.azure.com", "http://localhost:11434/api",
     "https://generativelanguage.googleapis.com", "https://host/v1", "sk-key",
     "gpt-4o-mini", "model-a"}
JsonValues == {Str(<<s>>) : s \in FieldStrings} \cup {Str(<<>>), Bool(TRUE), Bool(FALSE)}

\* JsonStringifyConfig keeping only the members whose value is truthy
JsonStringifyConfigTruthy(c) ==
    LET Member(i) == IF Truthy(c[ConfigFields[i]])
                     THEN <<ConfigFields[i], JsonValueText(c[ConfigFields[i]])>>
                     ELSE <<>>
    IN Str(<<"{">> \o Member(1) \o Member(2) \o Member(3) \o Member(4) \o Member(5)
           \o <<"}">>)

\* JSON.stringify(config): the members in order, a key and the text of its
\* value each; a member whose value is undefined is left out
JsonStringifyConfig(c) ==
    LET Member(i) == IF c[ConfigFields[i]] = Undefined
                     THEN <<>>
                     ELSE <<ConfigFields[i], JsonValueText(c[ConfigFields[i]])>>
    IN Str(<<"{">> \o Member(1) \o Member(2) \o Member(3) \o Member(4) \o Member(5)
           \o <<"}">>)

\* JSON.parse(storedConfig) as LLMConfig: the object of the members of the
\* text; a key the text lacks reads as undefined
JsonParseConfig(item) ==
    LET s == item.s
        n == Len(s)
        KeyAt(k) == {i \in 2..(n - 2) : i % 2 = 0 /\ s[i] = k}
    IN IF n >= 2 /\ n % 2 = 0 /\ s[1] = "{" /\ s[n] = "}"
       THEN Return([k \in {ConfigFields[i] : i \in 1..Len(ConfigFields)} |->
                      IF KeyAt(k) = {} THEN Undefined
                      ELSE LET i == CHOOSE i \in KeyAt(k) : TRUE
                           IN CHOOSE v \in JsonValues : JsonValueText(v) = s[i + 1]])
       ELSE Throw("SyntaxError: Unexpected token")

\* localStorage.setItem(key, value), removeItem(key)
setItem(store, key, value) == [store EXCEPT ![key] = value]

\* removeItem that leaves the item where it is
removeItemKeeping(store, key) == store

removeItem(store, key) == [store EXCEPT ![key] = Null]

\* saveConfig: the store after it, or the error setItem threw (the quota of
\* the store is exhausted), which saveConfig throws on
saveConfig(store, c, quotaLeft) ==
    IF quotaLeft
    THEN Return(setItem(store, CONFIG_KEY, JsonStringifyConfig(c)))
    ELSE Throw("QuotaExceededError")

\* getConfig: a copy of defaultConfig when there is no item, or when the
\* item does not parse
getConfig(store) ==
    LET storedConfig == store[CONFIG_KEY]
    IN IF ~Truthy(storedConfig) THEN defaultConfig
       ELSE LET parsed == JsonParseConfig(storedConfig)
            IN IF parsed.kind = "throw" THEN defaultConfig ELSE parsed.value

\* isConfigured: config.isConfigured && !!config.apiKey
isConfigured(store) ==
    LET c == getConfig(store)
    IN IF Truthy(c.isConfigured) THEN Bool(Truthy(c.apiKey)) ELSE c.isConfigured

\* clearConfig
clearConfig(store) == removeItem(store, CONFIG_KEY)

(***************************************************************************)
(* OnboardingScreen: the wizard that edits an LLMConfig in five steps,     *)
(* tests the connection and saves.                                         *)
(***************************************************************************)
\* the values of the items of the provider select: the four members of the
\* enum and LLMProvider.Gemini, which the enum lacks and which is undefined
SelectValues == {Str(<<p>>) : p \in LLMProvider} \cup {Undefined}

\* what the user types into the fields of steps 2, 3 and 4
ApiUrlInputs == {Str(<<>>), Str(<<"https://host/v1">>)}
ApiKeyInputs == {Str(<<>>), Str(<<"sk-key">>)}
ModelNameInputs == {Str(<<>>), Str(<<"model-a">>)}

\* handleProviderChange: the provider, and with it the default URL
handleProviderChange(cfg, value) ==
    LET apiUrl ==
          CASE value = Str(<<OpenAI>>) -> Str(<<"https://api.openai.com/v1">>)
            [] value = Str(<<HuggingFace>>) ->
                 Str(<<"https://api-inference.huggingface.co/models">>)
            [] value = Str(<<Azure>>) ->
                 Str(<<"https://your-resource-name.openai.azure.com">>)
            [] value = Str(<<Local>>) -> Str(<<"http://localhost:11434/api">>)
            [] value = Undefined -> Str(<<"https://generativelanguage.googleapis.com">>)
            [] OTHER -> cfg.apiUrl
    IN [cfg EXCEPT !.provider = value, !.apiUrl = apiUrl]

\* validateStep accepting every step
validateStepAlways(step, cfg) == TRUE

\* validateStep: the field of the step is not empty
validateStep(step, cfg) ==
    CASE step = 1 -> Truthy(cfg.provider)
      [] step = 2 -> Truthy(cfg.apiUrl)
      [] step = 3 -> Truthy(cfg.apiKey)
      [] step = 4 -> Truthy(cfg.modelName)
      [] OTHER -> TRUE

\* the configuration as the adapters read it: the text of each field
ConfigOf(cfg) ==
    LET TextOf(v) == IF v.t = "string" /\ v.s # <<>> THEN v.s[1] ELSE ""
    IN [provider |-> cfg.provider, apiUrl |-> TextOf(cfg.apiUrl),
        apiKey |-> TextOf(cfg.apiKey), modelName |-> TextOf(cfg.modelName)]

\* the condition of the backend that a settled fetch shows
BackendCondition(f) ==
    IF f.rejected THEN "unreachable"
    ELSE IF ~ResponseOk(f.status) THEN "error"
    ELSE "up"
BackendConditions == {"up", "unreachable", "error"}

\* testConnection, from the list listModels returned: models.length > 0
testConnection(list) == Len(list) > 0

(***************************************************************************)
(* Requests.                                                               *)
(***************************************************************************)
\* options: absent, or a bag in which temperature is absent or a number
\* (in tenths)
NoOptions == [given |-> FALSE, hasTemperature |-> FALSE, temperature |-> 0]
Options(hasTemperature, temperature) ==
    [given |-> TRUE, hasTemperature |-> hasTemperature, temperature |-> temperature]
OptionValues == {NoOptions, Options(FALSE, 0), Options(TRUE, 0), Options(TRUE, 10)}

Texts == {"hello", "see you"}

\* 0.5, in tenths
DefaultTemperature == 5

\* Temperature with || in the place of ??: options?.temperature || 0.5
TemperatureOr(opts) ==
    IF opts.given /\ opts.hasTemperature /\ opts.temperature # 0 THEN opts.temperature
    ELSE DefaultTemperature

\* options?.temperature ?? 0.5
Temperature(opts) ==
    IF opts.given /\ opts.hasTemperature THEN opts.temperature
    ELSE DefaultTemperature

HttpRequest(method, url, auth, model, txt, temperature) ==
    [method |-> method, url |-> url, auth |-> auth, model |-> model,
     text |-> txt, temperature |-> temperature]
NoRequest == HttpRequest("", <<>>, <<>>, "", "", 0)

RephraseRequest(variant, cfg, txt, opts) ==
    CASE variant = OpenAI ->
           HttpRequest("POST", <<cfg.apiUrl, "/chat/completions">>,
                       <<"Authorization", "Bearer", cfg.apiKey>>,
                       cfg.modelName, txt, Temperature(opts))
      [] variant = HuggingFace ->
           HttpRequest("POST", <<cfg.apiUrl>>,
                       <<"Authorization", "Bearer", cfg.apiKey>>,
                       "", txt, Temperature(opts))
      [] variant = Azure ->
           HttpRequest("POST",
                       <<cfg.apiUrl, "/openai/deployments/", cfg.modelName,
                         "/chat/completions?api-version=2023-05-15">>,
                       <<"api-key", cfg.apiKey>>,
                       "", txt, Temperature(opts))
      [] variant = Local ->
           HttpRequest("POST", <<cfg.apiUrl, "/generate">>, <<>>,
                       cfg.modelName, txt, Temperature(opts))

ListModelsRequest(variant, cfg) ==
    CASE variant = OpenAI ->
           HttpRequest("GET", <<cfg.apiUrl, "/models">>,
                       <<"Authorization", "Bearer", cfg.apiKey>>, "", "", 0)
      [] variant = Azure ->
           HttpRequest("GET", <<cfg.apiUrl, "/openai/deployments?api-version=2023-05-15">>,
                       <<"api-key", cfg.apiKey>>, "", "", 0)
      [] variant = Local ->
           HttpRequest("GET", <<cfg.apiUrl, "/models">>, <<>>, "", "", 0)

\* RetryArguments with the options dropped: this.rephrase(text)
RetryArgumentsWithoutOptions(txt, opts) == [text |-> txt, options |-> NoOptions]

\* return this.rephrase(text, options): the arguments of the retry
RetryArguments(txt, opts) == [text |-> txt, options |-> opts]

(***************************************************************************)
(* Calls in flight side by side.  An async call runs from one await to the *)
(* next without interruption; between the awaits the calls interleave.  A  *)
(* call keeps its arguments, its request and its response in its own       *)
(* frame; the adapters have one field, config.                             *)
(***************************************************************************)
CallIds == {1, 2}
\* two adapters: the one built from config, and one of a second configuration
AdapterIds == {1, 2}
OtherConfig ==
    [provider |-> Str(<<Local>>), apiUrl |-> "http://localhost:11434/api",
     apiKey |-> "", modelName |-> "model-b"]
AdapterConfig(a) == IF a = 1 THEN config ELSE OtherConfig
AdapterService(a) == createService(AdapterConfig(a))

NoCall ==
    [adapter |-> 1, op |-> "none", text |-> "", options |-> NoOptions, pc |-> "idle",
     request |-> NoRequest, fetched |-> NoFetch, result |-> NoResult, models |-> <<>>,
     n429 |-> 0]

\* rephrase(t, o) on adapter a as call c: to the fetch
StartRephrase(cs, c, a, t, o) ==
    [cs EXCEPT ![c] =
        [NoCall EXCEPT !.adapter = a, !.op = "rephrase", !.text = t, !.options = o,
                       !.pc = "fetching",
                       !.request = RephraseRequest(AdapterService(a), AdapterConfig(a), t, o)]]

\* SettleRephrase of an adapter that keeps the result in a field of its own
\* (this.lastResult) and returns that field: the calls of one adapter that
\* have returned see the result of the call that returned last
SettleRephraseShared(cs, c, f) ==
    LET completion == Rephrase(AdapterService(cs[c].adapter), f)
    IN [i \in DOMAIN cs |->
          IF i = c
          THEN [cs[c] EXCEPT
                  !.pc = CASE completion.kind = "return" -> "done"
                           [] completion.kind = "throw" -> "failed"
                           [] completion.kind = "sleep" -> "sleeping",
                  !.result = IF completion.kind = "return" THEN completion.value ELSE @,
                  !.fetched = f,
                  !.n429 = IF ~f.rejected /\ f.status = 429 THEN @ + 1 ELSE @]
          ELSE IF /\ completion.kind = "return" /\ cs[i].adapter = cs[c].adapter
                  /\ cs[i].op = "rephrase" /\ cs[i].pc = "done"
               THEN [cs[i] EXCEPT !.result = completion.value]
               ELSE cs[i]]

\* the fetch of call c settles as f: rephrase runs to its return or to its
\* retry timer
SettleRephrase(cs, c, f) ==
    LET completion == Rephrase(AdapterService(cs[c].adapter), f)
    IN [cs EXCEPT
          ![c].pc = CASE completion.kind = "return" -> "done"
                      [] completion.kind = "throw" -> "failed"
                      [] completion.kind = "sleep" -> "sleeping",
          ![c].result = IF completion.kind = "return" THEN completion.value ELSE @,
          ![c].fetched = f,
          ![c].n429 = IF ~f.rejected /\ f.status = 429 THEN @ + 1 ELSE @]

\* the retry timer of call c fires: this.rephrase(text, options)
RetryRephrase(cs, c) ==
    LET again == RetryArguments(cs[c].text, cs[c].options)
        a == cs[c].adapter
    IN [cs EXCEPT
          ![c].pc = "fetching",
          ![c].text = again.text,
          ![c].options = again.options,
          ![c].request = RephraseRequest(AdapterService(a), AdapterConfig(a),
                                         again.text, again.options)]

\* listModels() on adapter a as call c: HuggingFace returns its list, the
\* others fetch
StartListModels(cs, c, a) ==
    [cs EXCEPT ![c] =
        IF AdapterService(a) = HuggingFace
        THEN [NoCall EXCEPT !.adapter = a, !.op = "listModels", !.pc = "done",
                            !.models = HuggingFaceModels]
        ELSE [NoCall EXCEPT !.adapter = a, !.op = "listModels", !.pc = "fetching",
                            !.request = ListModelsRequest(AdapterService(a),
                                                          AdapterConfig(a))]]

\* the fetch of call c settles as f and listModels returns
SettleListModels(cs, c, f) ==
    LET a == cs[c].adapter
        completion == ListModels(AdapterService(a), AdapterConfig(a), f)
    IN [cs EXCEPT
          ![c].pc = IF completion.kind = "return" THEN "done" ELSE "failed",
          ![c].models = IF completion.kind = "return" THEN completion.value ELSE @,
          ![c].fetched = f]

\* The history counters stop at the most the bounded backend of Spec lets
\* them reach.
(***************************************************************************)
(* PhrasePilot: the component that loads the stored configuration and      *)
(* shows the wizard until the application is configured, and the two       *)
(* widgets after.                                                          *)
(***************************************************************************)
\* the state the component is constructed with
InitialApp ==
    [isLoading |-> TRUE, isConfigured |-> Bool(FALSE), config |-> defaultConfig,
     isEnabled |-> FALSE]

\* loadConfig, the effect of the mount
loadConfig(a, store) ==
    [a EXCEPT !.config = getConfig(store), !.isConfigured = isConfigured(store),
              !.isLoading = FALSE]

\* handleConfigComplete, the wizard's onComplete
handleConfigComplete(a, store) ==
    [a EXCEPT !.config = getConfig(store), !.isConfigured = Bool(TRUE)]

\* toggleRephrasing
toggleRephrasing(a, value) == [a EXCEPT !.isEnabled = value]

\* what render returns: the loading screen, the wizard, or the main screen
\* with the bubble while isEnabled and the keyboard
WizardShown == ~app.isLoading /\ ~Truthy(app.isConfigured)
MainShown == ~app.isLoading /\ Truthy(app.isConfigured)
BubbleMounted == MainShown /\ app.isEnabled
KeyboardMounted == MainShown

\* the buttons of the wizard: disabled={step === 1 || isLoading} and
\* disabled={!validateStep() || isLoading}
BackDisabled(w) == w.step = 1 \/ w.isLoading
\* the Next button disabled by validateStep alone
NextDisabledWhileInvalid(w) == ~validateStep(w.step, w.config)
NextDisabled(w) == ~validateStep(w.step, w.config) \/ w.isLoading

\* setStep(step + 2)
StepAfterNextSkipping(step) == step + 2
\* setStep(step + 1)
StepAfterNext(step) == step + 1

\* if (connectionSuccess) taken always
ShouldSaveAlways(connectionSuccess) == TRUE
\* if (connectionSuccess): handleNext saves after a successful test only
ShouldSave(connectionSuccess) == connectionSuccess

\* what a Finish run has called so far: the value testConnection returned,
\* how saveConfig ended, and whether onComplete was called
FinishRun(tested, saved, completed) ==
    [tested |-> tested, saved |-> saved, completed |-> completed]
NoFinish == FinishRun("none", "none", FALSE)

(***************************************************************************)
(* The widgets: AndroidBubble and IOSKeyboard.  A widget's state lives as  *)
(* long as its instance is mounted; what the instance has started (a       *)
(* rephrase request, a clipboard read or write, a timer) outlives the      *)
(* instance, and the callback of what has outlived it sets no state.       *)
(***************************************************************************)
\* rephrase requests one widget has in flight at most, mounted or not
MaxFlights == 2
\* clipboard reads, clipboard writes and timers a bubble has pending at most,
\* taken together
MaxPending == 1
\* longest text typed on the keyboard
MaxTyped == 1

\* String.prototype.trim leaving the text as it is
TrimKeeping(v) == v

\* String.prototype.trim: the text without its leading and trailing white
\* space, the space and the line break here
WhiteSpace == {" ", "\n"}
RECURSIVE TrimStart(_)
TrimStart(s) == IF s # <<>> /\ Head(s) \in WhiteSpace THEN TrimStart(Tail(s)) ELSE s
RECURSIVE TrimEnd(_)
TrimEnd(s) ==
    IF s # <<>> /\ s[Len(s)] \in WhiteSpace THEN TrimEnd(SubSeq(s, 1, Len(s) - 1)) ELSE s
Trim(v) == Str(TrimEnd(TrimStart(v.s)))

\* the state AndroidBubble is constructed with; nothing is pending.  closed
\* is history: handleClose ran and the bubble was not clicked since.  A
\* pending timer carries history, too: whether the user reopened the bubble
\* or pressed Edit or Retry since the copy that set it.
InitialBubble ==
    [expanded |-> FALSE, text |-> Str(<<>>), rephrased |-> Str(<<>>),
     isLoading |-> FALSE, requests |-> 0, reads |-> 0, writes |-> 0,
     timers |-> <<>>, closed |-> FALSE]

\* before a request of the keyboard has ended
NoOutcome == Return(NoResult)

\* the state IOSKeyboard is constructed with.  outcome is history: how the
\* request ended that ended last, until the next key or button.
InitialKeyboard ==
    [text |-> Str(<<>>), isOpen |-> FALSE, isLoading |-> FALSE, requests |-> 0,
     outcome |-> NoOutcome]

NoOrphans == [bubble |-> 0, keyboard |-> 0]

\* every pending timer has seen the user go on
Touched(timers) == [i \in DOMAIN timers |-> TRUE]

\* handleBubbleClick: expands a collapsed bubble and reads the clipboard
handleBubbleClick(b) ==
    IF ~b.expanded
    THEN [b EXCEPT !.expanded = TRUE, !.reads = @ + 1, !.closed = FALSE,
                   !.timers = Touched(@)]
    ELSE b

\* getClipboardText().then(clipText => { if (clipText) setText(clipText) })
ClipboardRead(b, clipText) ==
    [b EXCEPT !.text = IF Truthy(clipText) THEN clipText ELSE @, !.reads = @ - 1]

\* handleClose
handleClose(b) ==
    [b EXCEPT !.expanded = FALSE, !.text = Str(<<>>), !.rephrased = Str(<<>>),
              !.closed = TRUE]

\* AndroidBubble.handleRephrase up to the await: an empty text is refused
BubbleHandleRephrase(b) ==
    IF ~Truthy(Trim(b.text)) THEN b
    ELSE [b EXCEPT !.isLoading = TRUE, !.requests = @ + 1]

\* the branches of handleRephrase after the await, on a result
ResultIsError(r) == Truthy(r.error)
\* else if (result.rephrased) taken for every result without error
ResultIsRephrasedAlways(r) == ~Truthy(r.error)
ResultIsRephrased(r) == ~ResultIsError(r) /\ Truthy(r.rephrased)

\* AndroidBubble.handleRephrase from the await on, rephrase having
\* completed: a result with a rephrased text and no error is kept
BubbleRephraseSettles(b, completion) ==
    [b EXCEPT !.rephrased = IF completion.kind = "return"
                               /\ ResultIsRephrased(completion.value)
                            THEN completion.value.rephrased ELSE @,
              !.isLoading = FALSE, !.requests = @ - 1]

\* handleRetry
handleRetry(b) ==
    BubbleHandleRephrase([b EXCEPT !.rephrased = Str(<<>>), !.timers = Touched(@)])

\* handleEdit
handleEdit(b) ==
    [b EXCEPT !.text = b.rephrased, !.rephrased = Str(<<>>), !.timers = Touched(@)]

\* handleCopy up to the await: copyToClipboard is called if there is a result
handleCopy(b) == IF Truthy(b.rephrased) THEN [b EXCEPT !.writes = @ + 1] ELSE b

\* handleCopy from the await on: a success sets the timer of the collapse
CopySettles(b, success) ==
    [b EXCEPT !.writes = @ - 1,
              !.timers = IF success THEN Append(@, FALSE) ELSE @]

\* the callback of the timer
AutoCollapse(b) ==
    [b EXCEPT !.expanded = FALSE, !.text = Str(<<>>), !.rephrased = Str(<<>>),
              !.timers = Tail(@)]

\* what the bubble has pending beside its requests
Pending(b) == b.reads + b.writes + Len(b.timers)

\* the buttons of the bubble's form and of its result view
BubbleFormShown(b) == b.expanded /\ ~Truthy(b.rephrased)
BubbleResultShown(b) == b.expanded /\ Truthy(b.rephrased)
\* disabled={isLoading || !text.trim()}
RephraseDisabled(isLoading, txt) == isLoading \/ ~Truthy(Trim(txt))

\* handleKeyPress
Keys == {"a", "space", "backspace"}
handleKeyPress(txt, key) ==
    CASE key = "backspace" ->
           Str(IF txt.s = <<>> THEN <<>> ELSE SubSeq(txt.s, 1, Len(txt.s) - 1))
      [] key = "space" -> Str(Append(txt.s, " "))
      [] key = "return" -> Str(Append(txt.s, "\n"))
      [] OTHER -> Str(Append(txt.s, key))

\* IOSKeyboard.handleRephrase up to the await
KeyboardHandleRephrase(k) ==
    IF ~Truthy(Trim(k.text)) THEN k
    ELSE [k EXCEPT !.isLoading = TRUE, !.requests = @ + 1, !.outcome = NoOutcome]

\* IOSKeyboard.handleRephrase from the await on: a rephrased text without
\* error replaces the typed text
KeyboardRephraseSettles(k, completion) ==
    [k EXCEPT !.text = IF completion.kind = "return"
                          /\ ResultIsRephrased(completion.value)
                       THEN completion.value.rephrased ELSE @,
              !.isLoading = FALSE, !.requests = @ - 1, !.outcome = completion]

\* the Rephrase buttons of the keyboard: the one on the open keyboard
\* (enabled && ..., disabled={isLoading || !text.trim()}) and the one under
\* the text (enabled && text.trim() && !isOpen, disabled={isLoading})
KeyboardButtonShownAlways(k, enabled) == k.isOpen
KeyboardButtonShown(k, enabled) == enabled /\ k.isOpen
FieldButtonShown(k, enabled) == enabled /\ Truthy(Trim(k.text)) /\ ~k.isOpen

\* the unmount of a widget: its requests stay in flight
Unmounted(o, widget, w) == [o EXCEPT ![widget] = @ + w.requests]

\* the stored configuration the application starts with when the wizard
\* has completed in an earlier session
WidgetConfig ==
    LLMConfig(Str(<<OpenAI>>), Str(<<"https://host/v1">>), Str(<<"sk-key">>),
              Str(<<"model-a">>), Bool(TRUE))

\* what the user types into the bubble, what the clipboard holds
BubbleInputs == {Str(<<>>), Str(<<" ">>), Str(<<"a">>)}
ClipboardTexts == {Str(<<>>), Str(<<"c">>)}

\* the answers of the backend to the requests of the widgets, each ending
\* the call
WidgetResponses ==
    {Rejected(m) : m \in NetworkErrors}
    \cup {Resolved(500, Null, NotJson)}
    \cup {Resolved(200, Null, Body("envelope", Str(c), Str(c), Undefined, Str(c))) :
            c \in {<<"{", "p", "}">>, <<>>}}

Count(n, cap) == IF n < cap THEN n + 1 ELSE n

InitExceptStore ==
    /\ config \in Configs
    /\ service = createService(config)
    /\ op = "none"
    /\ text = ""
    /\ options = NoOptions
    /\ pc = "idle"
    /\ request = NoRequest
    /\ fetched = NoFetch
    /\ timer = 0
    /\ result = NoResult
    /\ models = <<>>
    /\ sent = 0
    /\ n429 = 0
    /\ waited = 0
    /\ backoff = Null
    /\ firstRequest = NoRequest
    /\ storageOp = "none"
    /\ loaded = NoConfig
    /\ configured = Undefined
    /\ wizard = [config |-> defaultConfig, step |-> 1, isLoading |-> FALSE]
    /\ wizardPc = "editing"
    /\ backend = "unknown"
    /\ wentBack = FALSE
    /\ callerAlias = TRUE
    /\ callerCopy = config
    /\ constructed = config
    /\ calls = [c \in CallIds |-> NoCall]
    /\ app = InitialApp
    /\ finish = NoFinish
    /\ bubble = InitialBubble
    /\ keyboard = InitialKeyboard
    /\ orphans = NoOrphans

\* the first start of the application: the store is empty
Init ==
    /\ InitExceptStore
    /\ localStorage = [k \in StorageKeys |-> Null]
    /\ lastSaved = NoConfig

\* a later start: the store holds the configuration the wizard saved
InitWidgets ==
    /\ InitExceptStore
    /\ config.provider = Str(<<OpenAI>>)
    /\ localStorage = setItem([k \in StorageKeys |-> Null], CONFIG_KEY,
                              JsonStringifyConfig(WidgetConfig))
    /\ lastSaved = WidgetConfig

\* the caller invokes rephrase(t, o): the request goes out
CallRephrase(t, o) ==
    /\ pc = "idle"
    /\ op' = "rephrase"
    /\ text' = t
    /\ options' = o
    /\ request' = RephraseRequest(service, config, t, o)
    /\ firstRequest' = RephraseRequest(service, config, t, o)
    /\ sent' = 1
    /\ pc' = "fetching"
    /\ UNCHANGED <<config, service, fetched, timer, result, models, n429, waited, backoff>>
    /\ UNCHANGED nonAdapterVars

\* the fetch of rephrase settles as f and the code runs to its next
\* suspension: it returns, or it sets the retry timer
RephraseSettles(f) ==
    /\ pc = "fetching"
    /\ op = "rephrase"
    /\ LET completion == Rephrase(service, f)
       IN /\ pc' = CASE completion.kind = "return" -> "done"
                     [] completion.kind = "throw" -> "failed"
                     [] completion.kind = "sleep" -> "sleeping"
          /\ result' = IF completion.kind = "return" THEN completion.value ELSE result
          /\ timer' = IF completion.kind = "sleep" THEN completion.delay ELSE timer
          /\ waited' = IF completion.kind = "sleep" THEN 0 ELSE waited
          /\ backoff' = IF completion.kind = "sleep" THEN f.retryAfter ELSE backoff
    /\ fetched' = f
    /\ n429' = IF ~f.rejected /\ f.status = 429 THEN Count(n429, Max429) ELSE n429
    /\ UNCHANGED <<config, service, op, text, options, request, models, sent, firstRequest>>
    /\ UNCHANGED nonAdapterVars

\* time passes while the retry timer is pending
Tick ==
    /\ pc = "sleeping"
    /\ timer > 0
    /\ LET d == IF timer < TickMs THEN timer ELSE TickMs
       IN /\ timer' = timer - d
          /\ waited' = waited + d
    /\ UNCHANGED <<config, service, op, text, options, pc, request, fetched,
                   result, models, sent, n429, backoff, firstRequest>>
    /\ UNCHANGED nonAdapterVars

\* the retry timer fires: rephrase calls itself and the request goes out again
TimerFires ==
    /\ pc = "sleeping"
    /\ timer = 0
    /\ LET again == RetryArguments(text, options)
       IN /\ text' = again.text
          /\ options' = again.options
          /\ request' = RephraseRequest(service, config, again.text, again.options)
    /\ sent' = Count(sent, Max429 + 1)
    /\ pc' = "fetching"
    /\ UNCHANGED <<config, service, op, fetched, timer, result, models, n429, waited,
                   backoff, firstRequest>>
    /\ UNCHANGED nonAdapterVars

\* the caller invokes listModels(): HuggingFace answers from its fixed list,
\* the other variants fetch
CallListModels ==
    /\ pc = "idle"
    /\ op' = "listModels"
    /\ IF service = HuggingFace
       THEN /\ models' = HuggingFaceModels
            /\ pc' = "done"
            /\ UNCHANGED <<request, firstRequest, sent>>
       ELSE /\ request' = ListModelsRequest(service, config)
            /\ firstRequest' = ListModelsRequest(service, config)
            /\ sent' = 1
            /\ pc' = "fetching"
            /\ UNCHANGED models
    /\ UNCHANGED <<config, service, text, options, fetched, timer, result, n429, waited,
                   backoff>>
    /\ UNCHANGED nonAdapterVars

\* the fetch of listModels settles as f and listModels returns
ListModelsSettles(f) ==
    /\ pc = "fetching"
    /\ op = "listModels"
    /\ LET completion == ListModels(service, config, f)
       IN /\ pc' = IF completion.kind = "return" THEN "done" ELSE "failed"
          /\ models' = IF completion.kind = "return" THEN completion.value ELSE models
    /\ fetched' = f
    /\ UNCHANGED <<config, service, op, text, options, request, timer, result,
                   sent, n429, waited, backoff, firstRequest>>
    /\ UNCHANGED nonAdapterVars

(***************************************************************************)
(* The backend.                                                            *)
(***************************************************************************)
ResponsesWith(bodies) ==
    {Resolved(st, Null, NotJson) : st \in Statuses \ {200, 429}}
    \cup {Resolved(429, h, NotJson) : h \in RetryAfterValues}
    \cup {Resolved(200, Null, b) : b \in bodies}
OpenAIResponses == ResponsesWith(OpenAIBodies)
HuggingFaceResponses == ResponsesWith(HuggingFaceBodies)
LocalResponses == ResponsesWith(LocalBodies)
RephraseResponses(variant) ==
    CASE variant \in {OpenAI, Azure} -> OpenAIResponses
      [] variant = HuggingFace -> HuggingFaceResponses
      [] variant = Local -> LocalResponses

ListModelsResponses ==
    {Resolved(st, Null, ModelsNotJson) : st \in Statuses \ {200}}
    \cup {Resolved(200, Null, b) : b \in ModelsBodies}

\* the backend of Spec answers one call at most Max429 times with 429
Within429Bound(f) == f.status = 429 => n429 < Max429

Next ==
    \/ \E t \in Texts, o \in OptionValues : CallRephrase(t, o)
    \/ \E m \in NetworkErrors : RephraseSettles(Rejected(m))
    \/ /\ pc = "fetching" /\ op = "rephrase"
       /\ \E f \in RephraseResponses(service) : Within429Bound(f) /\ RephraseSettles(f)
    \/ Tick
    \/ TimerFires
    \/ CallListModels
    \/ \E m \in NetworkErrors : ListModelsSettles(Rejected(m))
    \/ /\ pc = "fetching" /\ op = "listModels"
       /\ \E f \in ListModelsResponses : ListModelsSettles(f)

Spec == Init /\ [][Next]_vars

\* A backend that may answer 429 without end, and a clock and timers that
\* keep going: a pending timer runs down and a timer that ran down fires.
NextUnbounded ==
    \/ \E t \in Texts : CallRephrase(t, NoOptions)
    \/ \E m \in NetworkErrors : RephraseSettles(Rejected(m))
    \/ /\ pc = "fetching" /\ op = "rephrase"
       /\ \E f \in RephraseResponses(service) : RephraseSettles(f)
    \/ Tick
    \/ TimerFires

SpecUnbounded ==
    Init /\ [][NextUnbounded]_vars /\ WF_vars(Tick) /\ WF_vars(TimerFires)

(***************************************************************************)
(* The calls of StorageService.  Each runs to its end without suspending.  *)
(***************************************************************************)
\* the configurations a caller saves
StorableConfigs ==
    {LLMConfig(p, Str(<<"https://host/v1">>), k, Str(<<"model-a">>), Bool(b)) :
        p \in {Str(<<OpenAI>>), Str(<<Local>>), Undefined},
        k \in {Str(<<>>), Str(<<"sk-key">>)}, b \in BOOLEAN}

CallSaveConfig(c, quotaLeft) ==
    /\ LET completion == saveConfig(localStorage, c, quotaLeft)
       IN IF completion.kind = "return"
          THEN /\ localStorage' = completion.value
               /\ lastSaved' = c
               /\ storageOp' = "saveConfig"
          ELSE /\ storageOp' = "saveConfig threw"
               /\ UNCHANGED <<localStorage, lastSaved>>
    /\ UNCHANGED <<loaded, configured>>
    /\ UNCHANGED <<adapterVars, wizardVars, callerVars, calls, uiVars>>

CallGetConfig ==
    /\ loaded' = getConfig(localStorage)
    /\ storageOp' = "getConfig"
    /\ UNCHANGED <<localStorage, configured, lastSaved>>
    /\ UNCHANGED <<adapterVars, wizardVars, callerVars, calls, uiVars>>

CallIsConfigured ==
    /\ configured' = isConfigured(localStorage)
    /\ storageOp' = "isConfigured"
    /\ UNCHANGED <<localStorage, loaded, lastSaved>>
    /\ UNCHANGED <<adapterVars, wizardVars, callerVars, calls, uiVars>>

CallClearConfig ==
    /\ localStorage' = clearConfig(localStorage)
    /\ lastSaved' = NoConfig
    /\ storageOp' = "clearConfig"
    /\ UNCHANGED <<loaded, configured>>
    /\ UNCHANGED <<adapterVars, wizardVars, callerVars, calls, uiVars>>

NextStorage ==
    \/ \E c \in StorableConfigs, quotaLeft \in BOOLEAN : CallSaveConfig(c, quotaLeft)
    \/ CallGetConfig
    \/ CallIsConfigured
    \/ CallClearConfig

SpecStorage == Init /\ [][NextStorage]_vars

(***************************************************************************)
(* The handlers of PhrasePilot and of OnboardingScreen.  The wizard is on  *)
(* the screen while the application is not configured; the field of a step *)
(* is on the screen at that step only; Next is disabled while validateStep *)
(* fails and both buttons are while isLoading.  A continuation that        *)
(* follows an await on a settled promise runs before the next event is     *)
(* dispatched: handleNext, from the value of testConnection on, is one     *)
(* step with saveConfig and onComplete.                                    *)
(***************************************************************************)
\* the effect of the mount: loadConfig reads the store
LoadConfig ==
    /\ app.isLoading
    /\ app' = loadConfig(app, localStorage)
    /\ loaded' = getConfig(localStorage)
    /\ configured' = isConfigured(localStorage)
    /\ storageOp' = "isConfigured"
    /\ UNCHANGED <<localStorage, lastSaved, finish, bubble, keyboard, orphans>>
    /\ UNCHANGED <<adapterVars, wizardVars, callerVars, calls>>

SelectProvider(value) ==
    /\ WizardShown /\ wizard.step = 1
    /\ wizard' = [wizard EXCEPT !.config = handleProviderChange(@, value)]
    /\ UNCHANGED <<wizardPc, backend, wentBack, adapterVars, storageVars, callerVars, calls, uiVars>>

ChangeApiUrl(value) ==
    /\ WizardShown /\ wizard.step = 2
    /\ wizard' = [wizard EXCEPT !.config.apiUrl = value]
    /\ UNCHANGED <<wizardPc, backend, wentBack, adapterVars, storageVars, callerVars, calls, uiVars>>

ChangeApiKey(value) ==
    /\ WizardShown /\ wizard.step = 3
    /\ wizard' = [wizard EXCEPT !.config.apiKey = value]
    /\ UNCHANGED <<wizardPc, backend, wentBack, adapterVars, storageVars, callerVars, calls, uiVars>>

ChangeModelName(value) ==
    /\ WizardShown /\ wizard.step = 4
    /\ wizard' = [wizard EXCEPT !.config.modelName = value]
    /\ UNCHANGED <<wizardPc, backend, wentBack, adapterVars, storageVars, callerVars, calls, uiVars>>

\* the Back button: step > 1 && setStep(step - 1)
Back ==
    /\ WizardShown /\ ~BackDisabled(wizard)
    /\ wizard.step > 1
    /\ wizard' = [wizard EXCEPT !.step = @ - 1]
    /\ wentBack' = TRUE
    /\ UNCHANGED <<wizardPc, backend, adapterVars, storageVars, callerVars, calls, uiVars>>

\* handleNext before the last step
HandleNextStep ==
    /\ WizardShown /\ ~NextDisabled(wizard)
    /\ wizard.step < 5
    /\ wizard' = [wizard EXCEPT !.step = StepAfterNext(@)]
    /\ UNCHANGED <<wizardPc, backend, wentBack, adapterVars, storageVars, callerVars, calls, uiVars>>

\* handleNext from the value of testConnection on: a success saves the
\* configuration as configured and calls onComplete, which reads the store
\* and marks the application as configured; a failed test, or a save that
\* throws, leaves the wizard at its last step
AfterTestConnection(connectionSuccess, quotaLeft) ==
    LET completion ==
          saveConfig(localStorage, [wizard.config EXCEPT !.isConfigured = Bool(TRUE)],
                     quotaLeft)
        saves == ShouldSave(connectionSuccess)
        completes == saves /\ completion.kind = "return"
    IN /\ wizard' = [wizard EXCEPT !.isLoading = FALSE]
       /\ finish' = FinishRun(IF connectionSuccess THEN "true" ELSE "false",
                              CASE ~saves -> "none"
                                [] completes -> "returned"
                                [] OTHER -> "threw",
                              completes)
       /\ IF completes
          THEN /\ localStorage' = completion.value
               /\ lastSaved' = [wizard.config EXCEPT !.isConfigured = Bool(TRUE)]
               /\ storageOp' = "getConfig"
               /\ loaded' = getConfig(completion.value)
               /\ app' = handleConfigComplete(app, completion.value)
               /\ wizardPc' = "completed"
          ELSE /\ storageOp' = IF saves THEN "saveConfig threw" ELSE storageOp
               /\ wizardPc' = "editing"
               /\ UNCHANGED <<localStorage, lastSaved, loaded, app>>
       /\ UNCHANGED <<configured, wentBack, adapterVars, callerVars, calls>>
       /\ UNCHANGED <<bubble, keyboard, orphans>>

\* handleNext at the last step (Finish), while the backend is in condition
\* b: testConnection builds the adapter and calls listModels.  The
\* HuggingFace adapter answers without a request; the others fetch.
HandleNextFinish(b, quotaLeft) ==
    /\ WizardShown /\ ~NextDisabled(wizard)
    /\ ~(wizard.step < 5)
    /\ backend' = b
    /\ IF createService(ConfigOf(wizard.config)) = HuggingFace
       THEN AfterTestConnection(testConnection(HuggingFaceModels), quotaLeft)
       ELSE /\ wizard' = [wizard EXCEPT !.isLoading = TRUE]
            /\ wizardPc' = "testing"
            /\ finish' = NoFinish
            /\ UNCHANGED <<wentBack, adapterVars, storageVars, callerVars, calls>>
            /\ UNCHANGED <<app, bubble, keyboard, orphans>>

\* the fetch of listModels settles as f and handleNext runs to its end
TestConnectionSettles(f, quotaLeft) ==
    /\ wizardPc = "testing"
    /\ BackendCondition(f) = backend
    /\ LET cfg == ConfigOf(wizard.config)
           list == ListModels(createService(cfg), cfg, f)
       IN AfterTestConnection(list.kind = "return" /\ testConnection(list.value),
                              quotaLeft)
    /\ UNCHANGED backend

\* how the fetch of the connection test can settle
TestResponses == ListModelsResponses \cup {Rejected(m) : m \in NetworkErrors}

NextWizard ==
    \/ LoadConfig
    \/ \E value \in SelectValues : SelectProvider(value)
    \/ \E value \in ApiUrlInputs : ChangeApiUrl(value)
    \/ \E value \in ApiKeyInputs : ChangeApiKey(value)
    \/ \E value \in ModelNameInputs : ChangeModelName(value)
    \/ Back
    \/ HandleNextStep
    \/ \E b \in BackendConditions, quotaLeft \in BOOLEAN : HandleNextFinish(b, quotaLeft)
    \/ /\ wizardPc = "testing"
       /\ \E f \in TestResponses, quotaLeft \in BOOLEAN : TestConnectionSettles(f, quotaLeft)

SpecWizard == Init /\ [][NextWizard]_vars

(***************************************************************************)
(* The main screen: the switch and the settings of PhrasePilot, the        *)
(* handlers of the two widgets, and what the widgets have pending.  A      *)
(* button acts while it is rendered and not disabled.                      *)
(***************************************************************************)
\* the switch: the bubble is rendered while isEnabled
ToggleRephrasing(value) ==
    /\ MainShown
    /\ app' = toggleRephrasing(app, value)
    /\ IF BubbleMounted /\ ~value
       THEN /\ bubble' = InitialBubble
            /\ orphans' = Unmounted(orphans, "bubble", bubble)
       ELSE UNCHANGED <<bubble, orphans>>
    /\ UNCHANGED <<finish, keyboard>>
    /\ UNCHANGED <<adapterVars, storageVars, wizardVars, callerVars, calls>>

\* the widgets leave the screen with the main screen
UnmountWidgets ==
    /\ bubble' = InitialBubble
    /\ keyboard' = InitialKeyboard
    /\ orphans' = Unmounted(Unmounted(orphans, "bubble", bubble), "keyboard", keyboard)

\* the Reconfigure button: setIsConfigured(false)
Reconfigure ==
    /\ MainShown
    /\ app' = [app EXCEPT !.isConfigured = Bool(FALSE)]
    /\ UnmountWidgets
    /\ UNCHANGED finish
    /\ UNCHANGED <<adapterVars, storageVars, wizardVars, callerVars, calls>>

\* handleResetConfig
HandleResetConfig ==
    /\ MainShown
    /\ localStorage' = clearConfig(localStorage)
    /\ lastSaved' = NoConfig
    /\ storageOp' = "clearConfig"
    /\ app' = [app EXCEPT !.config = defaultConfig, !.isConfigured = Bool(FALSE)]
    /\ UnmountWidgets
    /\ UNCHANGED <<loaded, configured, finish>>
    /\ UNCHANGED <<adapterVars, wizardVars, callerVars, calls>>

\* a step of the bubble alone
BubbleStep(b) ==
    /\ bubble' = b
    /\ UNCHANGED <<app, finish, keyboard, orphans>>
    /\ UNCHANGED <<adapterVars, storageVars, wizardVars, callerVars, calls>>

\* a step of the keyboard alone
KeyboardStep(k) ==
    /\ keyboard' = k
    /\ UNCHANGED <<app, finish, bubble, orphans>>
    /\ UNCHANGED <<adapterVars, storageVars, wizardVars, callerVars, calls>>

\* the requests of a widget in flight, of its instances mounted or not
InFlight(widget) ==
    orphans[widget] + (IF widget = "bubble" THEN bubble.requests ELSE keyboard.requests)

\* the completion of rephrase on the answer f, for the application's config
WidgetCompletion(f) == Rephrase(createService(ConfigOf(app.config)), f)

ClickBubble ==
    /\ BubbleMounted /\ ~bubble.expanded
    /\ Pending(bubble) < MaxPending
    /\ BubbleStep(handleBubbleClick(bubble))

ClipboardReadSettles(clipText) ==
    /\ bubble.reads > 0
    /\ BubbleStep(ClipboardRead(bubble, clipText))

CloseBubble ==
    /\ BubbleMounted /\ bubble.expanded
    /\ BubbleStep(handleClose(bubble))

\* the Textarea: disabled={isLoading}
TypeIntoBubble(value) ==
    /\ BubbleMounted /\ BubbleFormShown(bubble) /\ ~bubble.isLoading
    /\ BubbleStep([bubble EXCEPT !.text = value])

ClickRephrase ==
    /\ BubbleMounted /\ BubbleFormShown(bubble)
    /\ ~RephraseDisabled(bubble.isLoading, bubble.text)
    /\ InFlight("bubble") < MaxFlights
    /\ BubbleStep(BubbleHandleRephrase(bubble))

ClickRetry ==
    /\ BubbleMounted /\ BubbleResultShown(bubble)
    /\ InFlight("bubble") < MaxFlights
    /\ BubbleStep(handleRetry(bubble))

ClickEdit ==
    /\ BubbleMounted /\ BubbleResultShown(bubble)
    /\ BubbleStep(handleEdit(bubble))

ClickCopy ==
    /\ BubbleMounted /\ BubbleResultShown(bubble)
    /\ Pending(bubble) < MaxPending
    /\ BubbleStep(handleCopy(bubble))

CopyToClipboardSettles(success) ==
    /\ bubble.writes > 0
    /\ BubbleStep(CopySettles(bubble, success))

CollapseTimerFires ==
    /\ bubble.timers # <<>>
    /\ BubbleStep(AutoCollapse(bubble))

\* the request of the mounted bubble ends as f shows
BubbleRequestSettles(f) ==
    /\ bubble.requests > 0
    /\ BubbleStep(BubbleRephraseSettles(bubble, WidgetCompletion(f)))

\* a request ends whose instance is gone
OrphanSettles(widget) ==
    /\ orphans[widget] > 0
    /\ orphans' = [orphans EXCEPT ![widget] = @ - 1]
    /\ UNCHANGED <<app, finish, bubble, keyboard>>
    /\ UNCHANGED <<adapterVars, storageVars, wizardVars, callerVars, calls>>

ShowKeyboard ==
    /\ KeyboardMounted /\ ~keyboard.isOpen
    /\ KeyboardStep([keyboard EXCEPT !.isOpen = TRUE, !.outcome = NoOutcome])

HideKeyboard ==
    /\ KeyboardMounted /\ keyboard.isOpen
    /\ KeyboardStep([keyboard EXCEPT !.isOpen = FALSE, !.outcome = NoOutcome])

KeyPress(key) ==
    /\ KeyboardMounted /\ keyboard.isOpen
    /\ key # "backspace" => Len(keyboard.text.s) < MaxTyped
    /\ KeyboardStep([keyboard EXCEPT !.text = handleKeyPress(@, key), !.outcome = NoOutcome])

\* the Rephrase button on the open keyboard
KeyboardRephrase ==
    /\ KeyboardMounted /\ KeyboardButtonShown(keyboard, app.isEnabled)
    /\ ~RephraseDisabled(keyboard.isLoading, keyboard.text)
    /\ InFlight("keyboard") < MaxFlights
    /\ KeyboardStep(KeyboardHandleRephrase(keyboard))

\* the Rephrase button under the text
FieldRephrase ==
    /\ KeyboardMounted /\ FieldButtonShown(keyboard, app.isEnabled)
    /\ ~keyboard.isLoading
    /\ InFlight("keyboard") < MaxFlights
    /\ KeyboardStep(KeyboardHandleRephrase(keyboard))

\* the request of the mounted keyboard ends as f shows
KeyboardRequestSettles(f) ==
    /\ keyboard.requests > 0
    /\ KeyboardStep(KeyboardRephraseSettles(keyboard, WidgetCompletion(f)))

NextWidgets ==
    \/ LoadConfig
    \/ \E value \in BOOLEAN : ToggleRephrasing(value)
    \/ Reconfigure
    \/ HandleResetConfig
    \/ ClickBubble
    \/ \E clipText \in ClipboardTexts : ClipboardReadSettles(clipText)
    \/ CloseBubble
    \/ \E value \in BubbleInputs : TypeIntoBubble(value)
    \/ ClickRephrase
    \/ ClickRetry
    \/ ClickEdit
    \/ ClickCopy
    \/ \E success \in BOOLEAN : CopyToClipboardSettles(success)
    \/ CollapseTimerFires
    \/ \E f \in WidgetResponses : BubbleRequestSettles(f)
    \/ \E widget \in {"bubble", "keyboard"} : OrphanSettles(widget)
    \/ ShowKeyboard
    \/ HideKeyboard
    \/ \E key \in Keys : KeyPress(key)
    \/ KeyboardRephrase
    \/ FieldRephrase
    \/ \E f \in WidgetResponses : KeyboardRequestSettles(f)

SpecWidgets == InitWidgets /\ [][NextWidgets]_vars

(***************************************************************************)
(* The caller and its configuration object.  The constructors keep the     *)
(* object they are given (this.config = config): while the caller's        *)
(* variable refers to that object, an assignment to one of its fields is   *)
(* an assignment to this.config's.                                         *)
(***************************************************************************)
\* the fields a caller changes, and the value it gives each
ChangedFields ==
    {[field |-> "apiUrl", value |-> "https://other/v1"],
     [field |-> "apiKey", value |-> "sk-other"],
     [field |-> "modelName", value |-> "model-b"]}

\* config[field] = value
AssignField(cfg, field, value) == [cfg EXCEPT ![field] = value]

\* the caller assigns a field of the object its variable refers to
CallerAssignsField(change) ==
    /\ IF callerAlias
       THEN /\ config' = AssignField(config, change.field, change.value)
            /\ config' # config
            /\ UNCHANGED callerCopy
       ELSE /\ callerCopy' = AssignField(callerCopy, change.field, change.value)
            /\ callerCopy' # callerCopy
            /\ UNCHANGED config
    /\ UNCHANGED <<service, op, text, options, pc, request, fetched, timer, result,
                   models, sent, n429, waited, backoff, firstRequest>>
    /\ UNCHANGED <<callerAlias, constructed, storageVars, wizardVars, calls, uiVars>>

\* the caller makes its variable refer to a new object with a field
\* changed: config = { ...config, [field]: value }
CallerReplacesConfig(change) ==
    /\ callerAlias
    /\ callerAlias' = FALSE
    /\ callerCopy' = AssignField(config, change.field, change.value)
    /\ UNCHANGED <<adapterVars, constructed, storageVars, wizardVars, calls, uiVars>>

\* the answers of the backend to the calls of this caller
CallerResponses ==
    {Resolved(500, Null, NotJson), Resolved(429, Null, NotJson),
     Resolved(429, Str(<<"0">>), NotJson),
     Resolved(200, Null, Body("envelope", Str(<<"{", "p", "}">>), Undefined, Undefined,
                              Str(<<"{", "p", "}">>)))}

NextCaller ==
    \/ \E t \in Texts : CallRephrase(t, NoOptions)
    \/ \E m \in NetworkErrors : RephraseSettles(Rejected(m))
    \/ /\ pc = "fetching" /\ op = "rephrase"
       /\ \E f \in CallerResponses : Within429Bound(f) /\ RephraseSettles(f)
    \/ Tick
    \/ TimerFires
    \/ \E change \in ChangedFields : CallerAssignsField(change)
    \/ \E change \in ChangedFields : CallerReplacesConfig(change)

SpecCaller == Init /\ [][NextCaller]_vars

(***************************************************************************)
(* The interleavings of the calls in flight.                               *)
(***************************************************************************)
\* the arguments and the answers of the calls in flight; a 429 asks for a
\* retry at once (Retry-After: 0) and each call gets one at most
ConcurrentOptions == {NoOptions, Options(TRUE, 0)}
ConcurrentResponses ==
    {Rejected(m) : m \in NetworkErrors}
    \cup {Resolved(500, Null, NotJson), Resolved(429, Str(<<"0">>), NotJson)}
    \cup {Resolved(200, Null, Body("envelope", Str(c), Str(c), Undefined, Str(c))) :
            c \in {<<"{", "p", "}">>, <<"x">>}}
ConcurrentModelsResponses ==
    {Rejected(m) : m \in NetworkErrors}
    \cup {Resolved(200, Null, ModelsBody("object", "data", <<[id |-> Str(<<"m1">>)]>>, <<>>)),
          Resolved(200, Null, ModelsBody("array", "none", <<>>, <<Str(<<"m1">>)>>))}

StartRephraseCall(c, a, t, o) ==
    /\ calls[c].pc = "idle"
    /\ calls' = StartRephrase(calls, c, a, t, o)
    /\ UNCHANGED <<adapterVars, storageVars, wizardVars, callerVars, uiVars>>

RephraseCallSettles(c, f) ==
    /\ calls[c].op = "rephrase" /\ calls[c].pc = "fetching"
    /\ (~f.rejected /\ f.status = 429) => calls[c].n429 = 0
    /\ calls' = SettleRephrase(calls, c, f)
    /\ UNCHANGED <<adapterVars, storageVars, wizardVars, callerVars, uiVars>>

RephraseCallRetries(c) ==
    /\ calls[c].op = "rephrase" /\ calls[c].pc = "sleeping"
    /\ calls' = RetryRephrase(calls, c)
    /\ UNCHANGED <<adapterVars, storageVars, wizardVars, callerVars, uiVars>>

StartListModelsCall(c, a) ==
    /\ calls[c].pc = "idle"
    /\ calls' = StartListModels(calls, c, a)
    /\ UNCHANGED <<adapterVars, storageVars, wizardVars, callerVars, uiVars>>

ListModelsCallSettles(c, f) ==
    /\ calls[c].op = "listModels" /\ calls[c].pc = "fetching"
    /\ calls' = SettleListModels(calls, c, f)
    /\ UNCHANGED <<adapterVars, storageVars, wizardVars, callerVars, uiVars>>

NextConcurrent ==
    \/ \E c \in CallIds, a \in AdapterIds, o \in ConcurrentOptions :
          StartRephraseCall(c, a, "hello", o)
    \/ \E c \in CallIds, f \in ConcurrentResponses : RephraseCallSettles(c, f)
    \/ \E c \in CallIds : RephraseCallRetries(c)
    \/ \E c \in CallIds, a \in AdapterIds : StartListModelsCall(c, a)
    \/ \E c \in CallIds, f \in ConcurrentModelsResponses : ListModelsCallSettles(c, f)

SpecConcurrent == Init /\ [][NextConcurrent]_vars

(***************************************************************************)
(* Properties of rephrase.                                                 *)
(***************************************************************************)
\* the rephrase call has ended: it returned, or it raised
RephraseEnded == op = "rephrase" /\ pc \in {"done", "failed"}

\* the last fetch of the rephrase call has settled and no later request is out
RephraseAnswered == op = "rephrase" /\ pc \in {"done", "failed", "sleeping"}

\* the failure shape of an LLMResponse: empty text, an error message
IsFailure(r) == r.rephrased = Str(<<>>) /\ Truthy(r.error)

\* the success shape: a non-empty text, no error
IsSuccess(r) == Truthy(r.rephrased) /\ r.error = Undefined

\* C1: for every variant, when the fetch of rephrase rejects (network
\* failure), rephrase does not raise: it returns a result whose rephrased
\* text is the empty string and whose error is the message of the failure.
C1_NetworkFailureReturnsError ==
    (RephraseEnded /\ fetched.rejected) =>
        /\ pc = "done"
        /\ result.rephrased = Str(<<>>)
        /\ Truthy(result.error)
        /\ result.error = Str(<<fetched.message>>)

\* a network failure on the request that follows a 429 of the OpenAI
\* variant: the retried call ends with the failure result
C1_Witness ==
    /\ RephraseEnded /\ fetched.rejected /\ pc = "done"
    /\ service = OpenAI /\ n429 = 1 /\ sent = 2

\* a non-success status that is no rate limit of the OpenAI variant
IsErrorStatus(variant, f) ==
    /\ ~f.rejected
    /\ ~ResponseOk(f.status)
    /\ ~(variant = OpenAI /\ f.status = 429)

\* C2: for every variant, a response with HTTP 500 (any non-success status
\* other than 429 on the OpenAI variant) ends the call at once: no request
\* follows it (one request in all when no 429 came before), and the result
\* has an empty rephrased text and a non-empty error message.
C2_ErrorStatusReturnsErrorWithoutRetry ==
    (RephraseAnswered /\ IsErrorStatus(service, fetched)) =>
        /\ pc = "done"
        /\ sent = (IF service = OpenAI THEN n429 + 1 ELSE 1)
        /\ (n429 = 0 => sent = 1)
        /\ result.rephrased = Str(<<>>)
        /\ result.error = Str(<<ApiError(fetched.status)>>)
        /\ Truthy(result.error)

C2_Witness ==
    /\ RephraseAnswered /\ service = OpenAI /\ ~fetched.rejected
    /\ fetched.status = 500 /\ sent = 1 /\ pc = "done"

\* C3: every result rephrase returns is a success (non-empty rephrased text,
\* no error) or a failure (empty rephrased text, an error message); none
\* has an empty or missing text and no error.
C3_ResultIsSuccessOrFailure ==
    (op = "rephrase" /\ pc = "done") => (IsSuccess(result) \/ IsFailure(result))

\* C4: in the OpenAI variant each 429 is followed by exactly one more
\* request, identical to the first one: k answers of 429 and then another
\* answer make k + 1 requests, and the result is the one of the last answer.
C4_OneIdenticalRetryPer429 ==
    (service = OpenAI /\ op = "rephrase") =>
        /\ request = firstRequest
        /\ request = RephraseRequest(service, config, text, options)
        /\ pc = "fetching" => sent = n429 + 1
        /\ pc = "sleeping" => sent = n429
        /\ pc # "failed"
        /\ pc = "done" =>
              /\ sent = n429 + 1
              /\ fetched.rejected \/ fetched.status # 429
              /\ Return(result) = OpenAIRephrase(fetched)

C4_Witness ==
    /\ service = OpenAI /\ op = "rephrase" /\ pc = "done"
    /\ n429 = 2 /\ sent = 3 /\ ~fetched.rejected /\ fetched.status = 200
    /\ options = Options(TRUE, 0) /\ IsSuccess(result)

\* a Retry-After header that is absent or a number of seconds
IsSeconds(h) ==
    \/ h = Null
    \/ h.t = "string" /\ h.s # <<>> /\ \A i \in 1..Len(h.s) : h.s[i] \in Digits

\* the duration such a header asks for, in seconds
RetryAfterSeconds(h) == IF h = Null THEN 5 ELSE DecimalValue(h.s)

\* C5: in the OpenAI variant the request that follows a 429 is never issued
\* before the Retry-After duration of that 429 (seconds; 5 when the header
\* is absent) has elapsed; after a first answer 429 with Retry-After 2 and a
\* second answer 200, rephrase has waited at least 2 seconds and returns the
\* success result of the second answer.
C5_RetryWaitsRetryAfter ==
    /\ (service = OpenAI /\ op = "rephrase" /\ pc = "fetching" /\ sent >= 2
          /\ IsSeconds(backoff)) =>
            waited \div MsPerSecond >= RetryAfterSeconds(backoff)
    /\ (service = OpenAI /\ op = "rephrase" /\ pc = "done" /\ n429 = 1
          /\ backoff = Str(<<"2">>) /\ ~fetched.rejected /\ fetched.status = 200) =>
            /\ waited >= 2 * MsPerSecond
            /\ Return(result) = OpenAIRephrase(fetched)

\* a rephrase call on the OpenAI variant has returned
OpenAIReturned == service = OpenAI /\ op = "rephrase" /\ pc = "done"

\* the backend has given a rephrase call on the OpenAI variant an answer
\* other than 429, or the network has failed
OpenAIAnsweredOtherThan429 ==
    /\ service = OpenAI /\ op = "rephrase" /\ pc \in {"done", "failed", "sleeping"}
    /\ fetched.rejected \/ fetched.status # 429

\* C6: the OpenAI variant has no maximum retry count.  A rephrase call
\* returns if and only if the backend at some time gives an answer other
\* than 429 or the network fails (so under 429 for ever it never returns),
\* and after every 429, whatever their number, the request is issued again.
C6_ReturnsIffAnsweredOtherThan429 ==
    /\ ([]~OpenAIReturned) \/ (<>OpenAIAnsweredOtherThan429)
    /\ ([]~OpenAIAnsweredOtherThan429) \/ (<>OpenAIReturned)
    /\ (service = OpenAI /\ pc = "sleeping") ~> (pc = "fetching")

\* the request is out again after more 429 answers than the bounded backend
\* gives: the counters have stopped
C6_Witness ==
    /\ service = OpenAI /\ op = "rephrase" /\ pc = "sleeping"
    /\ n429 = Max429 /\ sent = Max429 + 1

\* C7: the HuggingFace, Azure and Local variants never retry: a rephrase
\* call on them sets no timer, issues exactly one request and returns when
\* it is answered; an answer of 429 is returned as an error result.
C7_OtherVariantsNeverRetry ==
    (service \in {HuggingFace, Azure, Local} /\ op = "rephrase") =>
        /\ pc \in {"fetching", "done"}
        /\ sent = 1
        /\ request = firstRequest
        /\ (pc = "done" /\ ~fetched.rejected /\ fetched.status = 429) =>
              /\ result.rephrased = Str(<<>>)
              /\ result.error = Str(<<ApiError(429)>>)

C7_Witness ==
    /\ service = HuggingFace /\ op = "rephrase" /\ pc = "done"
    /\ ~fetched.rejected /\ fetched.status = 429 /\ sent = 1 /\ IsFailure(result)

(***************************************************************************)
(* Properties of listModels.                                               *)
(***************************************************************************)
\* a listModels call that fetched has ended
ListModelsEnded == op = "listModels" /\ pc \in {"done", "failed"} /\ service # HuggingFace

\* the fetch failed: network error, non-success status, or a body that is
\* no JSON
FetchFailed(f) == f.rejected \/ ~ResponseOk(f.status) \/ f.body.shape = "notjson"

ListField(variant) == IF variant = Azure THEN "value" ELSE "data"

RephraseEndedOk ==
    RephraseEnded /\ ~fetched.rejected /\ ResponseOk(fetched.status)

\* the content field the variant reads from an envelope
ContentField(variant, body) ==
    CASE variant \in {OpenAI, Azure} -> body.content
      [] variant = HuggingFace -> body.generated_text
      [] variant = Local ->
           IF Truthy(body.response) THEN body.response
           ELSE IF Truthy(body.output) THEN body.output
           ELSE IF Truthy(body.generated_text) THEN body.generated_text
           ELSE Undefined

\* a body that is no JSON, that lacks the envelope, or whose envelope lacks
\* the content field
MalformedBody(variant, body) ==
    body.shape \in {"notjson", "noenvelope"} \/ ContentField(variant, body) = Undefined

\* C9 as stated: a malformed or unexpected success body (no JSON, or an
\* envelope without the choices / generated_text field) is never reported
\* as an error by rephrase.
C9_MalformedBodyIsNoError ==
    (RephraseEndedOk /\ MalformedBody(service, fetched.body)) =>
        (pc = "done" /\ result.error = Undefined)

\* C9 as amended: a success body that is no JSON, or whose JSON lacks the
\* envelope the variant indexes, is reported as a failure (empty rephrased
\* text, an error message) and rephrase does not raise.  An envelope that is
\* there is never reported as an error: when its content field is missing
\* the result carries that missing content (undefined; the empty string on
\* the Local variant) and no error.
C9_UnreadableBodyIsErrorMissingContentIsNot ==
    RephraseEndedOk =>
        /\ pc = "done"
        /\ fetched.body.shape \in {"notjson", "noenvelope"} => IsFailure(result)
        /\ fetched.body.shape = "envelope" =>
              /\ result.error = Undefined
              /\ ContentField(service, fetched.body) = Undefined =>
                    result.rephrased = (IF service = Local THEN Str(<<>>) ELSE Undefined)

C9_Witness ==
    /\ RephraseEndedOk /\ pc = "done" /\ service = OpenAI
    /\ fetched.body.shape = "noenvelope" /\ IsFailure(result)

\* the envelope is there and its content is a string that is no JSON text
ContentIsInvalidJson ==
    /\ RephraseEndedOk /\ pc = "done"
    /\ fetched.body.shape = "envelope"
    /\ ContentField(service, fetched.body).t = "string"
    /\ JsonParse(ContentField(service, fetched.body)).kind = "throw"

\* C10 as stated: when the success response is well-formed but the generated
\* content is not valid JSON, rephrase returns that raw content unchanged as
\* the rephrased text, with no error.
C10_InvalidJsonContentIsReturnedRaw ==
    ContentIsInvalidJson =>
        result = LLMResponse(ContentField(service, fetched.body), Undefined)

\* C10 as amended: when the generated content is not valid JSON, the OpenAI
\* and Azure variants return that raw content unchanged, with no error.  The
\* HuggingFace and Local variants do so unless the span of the content from
\* its first "{" to its last "}" is a JSON text: then they return the
\* rephrased field of that span, with no error.
C10_RawContentUnlessJsonSpan ==
    ContentIsInvalidJson =>
        LET content == ContentField(service, fetched.body)
            opens == Positions(content.s, "{")
            closes == Positions(content.s, "}")
            span == IF opens # {} /\ closes # {} /\ MinOf(opens) < MaxOf(closes)
                    THEN SubSeq(content.s, MinOf(opens), MaxOf(closes))
                    ELSE <<>>
        IN /\ result.error = Undefined
           /\ result.rephrased =
                IF service \in {OpenAI, Azure} THEN content
                ELSE IF span = <<"{", "p", "}">> THEN RephrasedValue
                ELSE IF span = <<"{", "}">> THEN Undefined
                ELSE content

\* prose around a brace span that is no JSON, on the HuggingFace variant:
\* the raw content comes back
C10_Witness ==
    /\ ContentIsInvalidJson /\ service = HuggingFace
    /\ fetched.body.generated_text = Str(<<"{", "p", "}", "}">>)
    /\ result = LLMResponse(Str(<<"{", "p", "}", "}">>), Undefined)

\* the envelope is there and its content is the JSON object that carries the
\* rephrased member
ContentIsRephrasedObject ==
    /\ RephraseEndedOk
    /\ fetched.body.shape = "envelope"
    /\ ContentField(service, fetched.body) = Str(<<"{", "p", "}">>)

\* C11: for all four variants, when the success response is well-formed and
\* its content is a JSON object with the rephrased field, rephrase returns
\* the value of that field as the rephrased text, and an undefined error.
C11_RephrasedFieldIsReturned ==
    ContentIsRephrasedObject =>
        /\ pc = "done"
        /\ result.rephrased = RephrasedValue
        /\ result.error = Undefined

\* the Azure variant has returned the value of the rephrased field
C11_Witness ==
    /\ ContentIsRephrasedObject /\ service = Azure /\ pc = "done"
    /\ result = LLMResponse(Str(<<"v">>), Undefined)

(***************************************************************************)
(* Properties of the factory.                                              *)
(***************************************************************************)
\* C12: createService returns the OpenAI, HuggingFace, Azure or Local adapter
\* exactly when config.provider is the matching identifier, and the OpenAI
\* adapter for every other provider value, an undefined one included.
C12_FactorySelectsByProvider ==
    /\ \A p \in LLMProvider : config.provider = Str(<<p>>) => service = p
    /\ \A p \in LLMProvider \ {OpenAI} : service = p => config.provider = Str(<<p>>)
    /\ config.provider \notin {Str(<<p>>) : p \in LLMProvider} => service = OpenAI

\* an adapter built from a configuration without provider serves a call as
\* the OpenAI variant does: its request goes to /chat/completions
C12_Witness ==
    /\ config.provider = Undefined /\ service = OpenAI
    /\ op = "rephrase" /\ pc = "done"
    /\ request.url = <<config.apiUrl, "/chat/completions">>

(***************************************************************************)
(* Properties of the request.                                              *)
(***************************************************************************)
\* C19: for every variant, the temperature of every rephrase request (the
\* retried ones included) is options.temperature when the caller supplies
\* it, the value 0 included, and 0.5 when options or its temperature key is
\* absent.
C19_TemperatureIsSuppliedOrDefault ==
    op = "rephrase" =>
        /\ (options.given /\ options.hasTemperature) =>
              request.temperature = options.temperature
        /\ ~(options.given /\ options.hasTemperature) =>
              request.temperature = 5

\* a supplied temperature of 0 was sent as 0 by the OpenAI variant, in the
\* request it retried after a 429
C19_Witness ==
    /\ op = "rephrase" /\ service = OpenAI /\ sent = 2 /\ pc = "done"
    /\ options = Options(TRUE, 0) /\ request.temperature = 0

(***************************************************************************)
(* Properties of the Local variant's fields.                               *)
(***************************************************************************)
\* the Local variant has returned on a success response with an envelope
LocalAnswered ==
    RephraseEndedOk /\ pc = "done" /\ service = Local /\ fetched.body.shape = "envelope"

\* the first of response, output, generated_text that the body carries (with
\* a string, empty or not, as its value)
FirstCarriedField(body) ==
    IF body.response.t = "string" THEN body.response
    ELSE IF body.output.t = "string" THEN body.output
    ELSE IF body.generated_text.t = "string" THEN body.generated_text
    ELSE Str(<<>>)

\* the first of response, output, generated_text that is a non-empty string
FirstNonEmptyField(body) ==
    IF Truthy(body.response) THEN body.response
    ELSE IF Truthy(body.output) THEN body.output
    ELSE IF Truthy(body.generated_text) THEN body.generated_text
    ELSE Str(<<>>)

\* C20 as stated: the Local variant takes the generated text from the first
\* of the fields response, output, generated_text that the body carries; a
\* body that carries several yields the one of highest priority.
C20_FirstCarriedFieldIsTaken ==
    LocalAnswered => result = ExtractJson(FirstCarriedField(fetched.body))

\* C20 as amended: the Local variant takes the generated text from the first
\* of the fields response, output, generated_text whose value is a non-empty
\* string, and the empty string when none is: a field that is carried with
\* an empty (or null) value is passed over for one of lower priority.
C20_FirstNonEmptyFieldIsTaken ==
    LocalAnswered => result = ExtractJson(FirstNonEmptyField(fetched.body))

\* a body that carries an empty response beside an output and a
\* generated_text: the output is taken
C20_Witness ==
    /\ LocalAnswered
    /\ fetched.body.response = Str(<<>>)
    /\ fetched.body.output = Str(<<"x">>)
    /\ fetched.body.generated_text = Str(<<"p">>)
    /\ result = LLMResponse(Str(<<"x">>), Undefined)

(***************************************************************************)
(* Properties of the store.                                                *)
(***************************************************************************)
\* C15: a configuration saved with saveConfig and then read with getConfig
\* has the same value in every field (provider, apiUrl, apiKey, modelName,
\* isConfigured), for every configuration.
C15_SavedConfigReadsBackEqual ==
    (storageOp = "getConfig" /\ lastSaved # NoConfig) =>
        \A i \in 1..Len(ConfigFields) :
            loaded[ConfigFields[i]] = lastSaved[ConfigFields[i]]

\* a configuration without provider, with an empty key and the flag false
\* has been saved and read back
C15_Witness ==
    /\ storageOp = "getConfig"
    /\ lastSaved = LLMConfig(Undefined, Str(<<"https://host/v1">>), Str(<<>>),
                             Str(<<"model-a">>), Bool(FALSE))
    /\ loaded = lastSaved

\* C16: the store holds at most one configuration, under one fixed key:
\* after any sequence of saveConfig and clearConfig calls, getConfig returns
\* the configuration saved last when no clearConfig followed it, and the
\* default configuration otherwise, for which isConfigured() is false.
C16_StoreHoldsLastSavedOrDefault ==
    /\ \A k \in StorageKeys \ {CONFIG_KEY} : localStorage[k] = Null
    /\ storageOp = "getConfig" =>
          loaded = (IF lastSaved = NoConfig THEN defaultConfig ELSE lastSaved)
    /\ (storageOp = "isConfigured" /\ lastSaved = NoConfig) =>
          configured = Bool(FALSE)

\* a configured configuration was saved and read, then cleared: isConfigured
\* is false
C16_Witness ==
    /\ storageOp = "isConfigured" /\ configured = Bool(FALSE)
    /\ lastSaved = NoConfig /\ localStorage[CONFIG_KEY] = Null
    /\ loaded.isConfigured = Bool(TRUE) /\ loaded.apiKey = Str(<<"sk-key">>)

(***************************************************************************)
(* Properties of the wizard.                                               *)
(***************************************************************************)
\* the store holds a configuration marked as configured
ConfiguredStored ==
    /\ localStorage[CONFIG_KEY] # Null
    /\ getConfig(localStorage).isConfigured = Bool(TRUE)

\* C13: a configuration with isConfigured = true is stored only after the
\* user completed the wizard and a connectivity test against the configured
\* backend succeeded: for every provider, a backend that is unreachable or
\* answers with an error never leads to a stored configuration marked as
\* configured.
C13_ConfiguredOnlyAfterSuccessfulTest ==
    ConfiguredStored => (wizardPc = "completed" /\ backend = "up")

\* C14: every configuration the wizard saves with isConfigured = true has a
\* non-empty provider, endpoint (apiUrl), credential (apiKey) and model
\* identifier (modelName), whatever sequence of Next, Back, provider changes
\* and field edits led to the save.
C14_SavedConfigHasNoEmptyField ==
    ConfiguredStored =>
        LET c == getConfig(localStorage)
        IN /\ c = lastSaved
           /\ c.provider.t = "string" /\ c.provider.s # <<>>
           /\ c.apiUrl.t = "string" /\ c.apiUrl.s # <<>>
           /\ c.apiKey.t = "string" /\ c.apiKey.s # <<>>
           /\ c.modelName.t = "string" /\ c.modelName.s # <<>>

\* the wizard completed after the user went back, with a provider and a
\* URL, key and model other than the defaults
C14_Witness ==
    /\ ConfiguredStored /\ wizardPc = "completed" /\ wentBack
    /\ getConfig(localStorage) =
         LLMConfig(Str(<<Azure>>), Str(<<"https://host/v1">>), Str(<<"sk-key">>),
                   Str(<<"model-a">>), Bool(TRUE))

(***************************************************************************)
(* Properties of the adapter's configuration.                              *)
(***************************************************************************)
\* C17: an adapter uses the configuration values as they were when it was
\* constructed: a change the caller makes to its configuration after the
\* construction does not change the endpoint, credential or model used by
\* the later requests of that adapter.
C17_RequestsUseConstructionValues ==
    (op = "rephrase" /\ pc # "idle") =>
        LET expected == RephraseRequest(service, constructed, text, options)
        IN /\ request.url = expected.url
           /\ request.auth = expected.auth
           /\ request.model = expected.model

(***************************************************************************)
(* Properties of the calls in flight.                                      *)
(***************************************************************************)
\* what call c returns when only its own arguments and the answer to its
\* own request count
OwnResult(c) ==
    Rephrase(AdapterService(calls[c].adapter), calls[c].fetched).value
OwnModels(c) ==
    IF AdapterService(calls[c].adapter) = HuggingFace THEN HuggingFaceModels
    ELSE ListModels(AdapterService(calls[c].adapter), AdapterConfig(calls[c].adapter),
                    calls[c].fetched).value

\* each call's request is built from its own arguments and its adapter's
\* configuration, and each call that returned holds the result of the
\* answer to its own request
CallsAreIndependent ==
    \A c \in CallIds :
        /\ calls[c].pc # "failed"
        /\ calls[c].op = "rephrase" =>
              /\ calls[c].request =
                    RephraseRequest(AdapterService(calls[c].adapter),
                                    AdapterConfig(calls[c].adapter),
                                    calls[c].text, calls[c].options)
              /\ calls[c].pc = "done" => calls[c].result = OwnResult(c)
        /\ (calls[c].op = "listModels" /\ calls[c].pc = "done") =>
              calls[c].models = OwnModels(c)

\* C18: concurrent rephrase and listModels calls on the same or on different
\* adapters are independent: no call writes the adapter's configuration or
\* any state shared between calls, and under every interleaving each call's
\* result depends only on its own arguments and on the responses to its own
\* requests.  (The adapter's configuration and variant are, in every state,
\* the ones of its construction.)
C18_ConcurrentCallsAreIndependent ==
    /\ CallsAreIndependent
    /\ config = constructed
    /\ service = createService(constructed)

\* two rephrase calls on the same adapter: the first was answered 429 and
\* retried while the second ran, and each returned its own result
C18_Witness ==
    /\ calls[1].op = "rephrase" /\ calls[2].op = "rephrase"
    /\ calls[1].adapter = calls[2].adapter
    /\ calls[1].pc = "done" /\ calls[2].pc = "done"
    /\ calls[1].n429 = 1 /\ calls[2].n429 = 0
    /\ calls[1].result = LLMResponse(Str(<<"v">>), Undefined)
    /\ calls[2].result = LLMResponse(Str(<<>>), Str(<<"API error: 500">>))

(***************************************************************************)
(* Properties of the wizard's Finish run and of its steps.                 *)
(***************************************************************************)
\* C27: in the onboarding wizard, saving and completion follow a fixed
\* order: saveConfig is called only after a connectivity test returned
\* true, and onComplete is called only after saveConfig finished without
\* error; when the test fails or saveConfig throws, nothing is stored as
\* configured and onComplete is not called (the application stays
\* unconfigured).
C27_SaveAfterTestCompleteAfterSave ==
    /\ finish.saved # "none" => finish.tested = "true"
    /\ finish.completed => finish.saved = "returned"
    /\ ConfiguredStored => finish.tested = "true" /\ finish.saved = "returned"
    /\ Truthy(app.isConfigured) => finish.completed /\ ConfiguredStored
    /\ (finish.tested = "false" \/ finish.saved = "threw") =>
           /\ ~finish.completed
           /\ ~ConfiguredStored
           /\ ~Truthy(app.isConfigured)
           /\ wizardPc = "editing"

\* a Finish run tested, saved and completed: onComplete has loaded what
\* was saved and the application is configured
C27_Witness ==
    /\ finish = FinishRun("true", "returned", TRUE)
    /\ wizardPc = "completed"
    /\ app.isConfigured = Bool(TRUE)
    /\ app.config = lastSaved
    /\ ConfiguredStored

\* the field the wizard asks for at a step
FieldOfStep(step) ==
    CASE step = 1 -> wizard.config.provider
      [] step = 2 -> wizard.config.apiUrl
      [] step = 3 -> wizard.config.apiKey
      [] step = 4 -> wizard.config.modelName

\* a change of the step is a move of Next or a move of Back
StepMoves ==
    wizard'.step # wizard.step =>
        \/ /\ wizard'.step = wizard.step + 1
           /\ wizard.step < 5
           /\ FieldOfStep(wizard.step).t = "string"
           /\ FieldOfStep(wizard.step).s # <<>>
        \/ /\ wizard'.step = wizard.step - 1
           /\ wizard.step > 1

\* C28: the wizard step always stays within 1..5: Next moves from step s to
\* s+1 only when s < 5 and the field of step s is non-empty (provider,
\* apiUrl, apiKey, modelName for steps 1 to 4), Back moves to s-1 only when
\* s > 1, and no other action changes the step.
C28_StepStaysWithinOneToFive ==
    /\ [](wizard.step \in 1..5)
    /\ [][StepMoves]_vars

\* the last step, reached a second time after Back was used there
C28_Witness ==
    /\ wizard.step = 5 /\ wentBack
    /\ wizardPc = "editing" /\ backend = "unknown"
    /\ wizard.config.provider = Str(<<Local>>)

\* Finish was clicked and its handling has not ended
FinishRunning == wizardPc = "testing"

\* C29: from the click on Finish at step 5 until the finish handling has
\* ended (connectivity test, saveConfig and onComplete done or failed),
\* isLoading stays true, so Back and Next are disabled and a second finish
\* run cannot start concurrently.
C29_LoadingThroughoutFinish ==
    FinishRunning =>
        /\ wizard.isLoading
        /\ wizard.step = 5
        /\ ~ENABLED Back
        /\ ~ENABLED HandleNextStep
        /\ ~ENABLED (\E b \in BackendConditions, quotaLeft \in BOOLEAN :
                        HandleNextFinish(b, quotaLeft))

\* the connection test of a Finish run is out
C29_Witness ==
    /\ FinishRunning /\ wizard.isLoading /\ wizard.step = 5
    /\ backend = "unreachable"
    /\ finish = NoFinish

(***************************************************************************)
(* Properties of the widgets.                                              *)
(***************************************************************************)
\* a step in which the mounted bubble, the mounted keyboard starts a request
BubbleStarts == bubble'.requests = bubble.requests + 1
KeyboardStarts == keyboard'.requests = keyboard.requests + 1

\* C21: while the enable toggle is off, no rephrase request can be started
\* from either widget: the Android bubble is not rendered (none of its
\* handlers can run, it holds no state) and the iOS keyboard shows no
\* Rephrase button, for every sequence of user actions.
C21_NoRequestWhileDisabled ==
    /\ [](~app.isEnabled =>
            /\ bubble = InitialBubble
            /\ ~ENABLED ClickBubble
            /\ ~ENABLED ClickRephrase
            /\ ~ENABLED ClickRetry
            /\ ~ENABLED KeyboardRephrase
            /\ ~ENABLED FieldRephrase)
    /\ [][~app.isEnabled => ~BubbleStarts /\ ~KeyboardStarts]_vars

\* the toggle was switched off while the bubble had a request in flight;
\* the keyboard is open over a text that could be rephrased
C21_Witness ==
    /\ MainShown /\ ~app.isEnabled
    /\ orphans.bubble = 1
    /\ keyboard.isOpen /\ keyboard.text = Str(<<"a">>) /\ ~keyboard.isLoading

\* the result is a success: a non-empty rephrased text and no error
OutcomeIsSuccess(completion) ==
    /\ completion.kind = "return"
    /\ completion.value.rephrased.t = "string"
    /\ completion.value.rephrased.s # <<>>
    /\ ~Truthy(completion.value.error)

\* a step in which a request of the mounted keyboard ends
KeyboardSettles ==
    /\ keyboard'.requests = keyboard.requests - 1
    /\ orphans' = orphans

\* C22: in the iOS keyboard widget, a rephrase outcome changes the typed
\* text only on success: when the result has a non-empty rephrased text and
\* no error the text becomes exactly that result, and when the result
\* carries an error or an empty rephrased text (or the call throws) the
\* text is left unchanged.
C22_TextChangesOnlyOnSuccess ==
    [][KeyboardSettles =>
         IF OutcomeIsSuccess(keyboard'.outcome)
         THEN keyboard'.text = keyboard'.outcome.value.rephrased
         ELSE keyboard'.text = keyboard.text]_vars

\* a request of the keyboard has ended with a rephrased text, which is the
\* text now
C22_Witness ==
    /\ OutcomeIsSuccess(keyboard.outcome)
    /\ keyboard.text = RephrasedValue
    /\ ~keyboard.isLoading /\ keyboard.requests = 0

\* the text is empty or white space only
IsBlank(v) == \A i \in 1..Len(v.s) : v.s[i] \in WhiteSpace

\* C23: neither widget ever sends a rephrase request for empty or
\* whitespace-only text: handleRephrase in the Android bubble and in the iOS
\* keyboard issues a request only when the trimmed text is non-empty,
\* whatever path (Rephrase button, Retry) triggered it.
C23_NoRequestForBlankText ==
    [][/\ BubbleStarts => ~IsBlank(bubble.text)
       /\ KeyboardStarts => ~IsBlank(keyboard.text)]_vars

\* Retry has sent the text again that gave the result before: the request
\* is out, the result is cleared, the timer of the copy is still pending
C23_Witness ==
    /\ bubble.requests = 1 /\ bubble.isLoading
    /\ bubble.text = Str(<<"a">>) /\ bubble.rephrased = Str(<<>>)
    /\ bubble.timers = <<TRUE>> /\ bubble.expanded
    /\ keyboard.requests = 1 /\ keyboard.text = Str(<<" ">>)

\* C24: each widget has at most one rephrase request in flight at any
\* time: while isLoading is true no user action (Rephrase, Retry, close and
\* reopen of the bubble, hide and show of the keyboard) can start a second
\* request.
C24_OneRequestInFlight ==
    /\ InFlight("bubble") <= 1
    /\ InFlight("keyboard") <= 1

\* C25: once the Android bubble has been closed (handleClose), it stays
\* collapsed with empty text and empty rephrased result until the user
\* clicks it again: neither a rephrase that was still in flight at the
\* moment of closing nor a pending clipboard read writes into the closed
\* bubble.
C25_ClosedBubbleStaysEmpty ==
    bubble.closed =>
        /\ ~bubble.expanded
        /\ bubble.text = Str(<<>>)
        /\ bubble.rephrased = Str(<<>>)

\* a step in which the oldest timer of the mounted bubble fires
TimerFiresStep ==
    /\ bubble.timers # <<>>
    /\ bubble'.timers = Tail(bubble.timers)
    /\ app' = app

\* C26: the auto-collapse scheduled 1.5 seconds after a successful Copy
\* clears only the session that was copied: text and results the user
\* produces after closing and reopening the bubble, or after pressing Edit
\* or Retry, within that delay are not wiped when the timer fires.
C26_TimerClearsCopiedSessionOnly ==
    [][(TimerFiresStep /\ Head(bubble.timers)) =>
          /\ bubble'.text = bubble.text
          /\ bubble'.rephrased = bubble.rephrased]_vars

\* within one mounted instance the widgets do keep to one request
OneRequestPerInstance ==
    /\ bubble.requests <= 1 /\ (bubble.isLoading <=> bubble.requests = 1)
    /\ keyboard.requests <= 1 /\ (keyboard.isLoading <=> keyboard.requests = 1)
    /\ orphans.keyboard > 0 => ~MainShown

=============================================================================
